---------------------------- MODULE Spec2Model ----------------------------
(***************************************************************************)
(* Model of the SQL execution driver of aidb (src/lib/sql-executor.ts):    *)
(* SQLExecutor.executeQuery / close, initializeDatabase and its helpers    *)
(* createTablesFromInserts, getSampleDataForTable, generateCreateTableSQL  *)
(* and convertMySQLToSQLite.                                               *)
(*                                                                         *)
(* Texts are TLA+ strings handled character by character (Len, SubSeq,     *)
(* \o).  The backquote character U+0060 cannot be written inside a TLA+    *)
(* string literal; BQ stands for it everywhere in this module.  BQ is, as  *)
(* the backquote, neither a word character, nor white space, nor a         *)
(* parenthesis, so every pattern of the source treats it the same way.     *)
(***************************************************************************)
EXTENDS Integers, Sequences, FiniteSets, TLC

----------------------------------------------------------------------------
(* Characters and the String methods the source uses.                      *)

BQ == "^"

LowerChars == "abcdefghijklmnopqrstuvwxyz"
UpperChars == "ABCDEFGHIJKLMNOPQRSTUVWXYZ"
DigitChars == "0123456789"

Ch(s, i) == SubSeq(s, i, i)

CharSet(s) == {Ch(s, i) : i \in 1..Len(s)}

LowerSet == CharSet(LowerChars)
UpperSet == CharSet(UpperChars)
DigitSet == CharSet(DigitChars)
WordSet == LowerSet \cup UpperSet \cup DigitSet \cup {"_"}
SpaceSet == {" ", "\n", "\t", "\r"}

UpperOf == [c \in LowerSet |-> Ch(UpperChars, CHOOSE i \in 1..26 : Ch(LowerChars, i) = c)]
LowerOf == [c \in UpperSet |-> Ch(LowerChars, CHOOSE i \in 1..26 : Ch(UpperChars, i) = c)]

UpChar(c) == IF c \in LowerSet THEN UpperOf[c] ELSE c
LowChar(c) == IF c \in UpperSet THEN LowerOf[c] ELSE c

(* Concatenation of the strings f[lo..hi], by halves: the evaluation depth *)
(* grows with the logarithm of the length, not with the length.            *)
RECURSIVE Cat(_, _, _)
Cat(f, lo, hi) ==
  IF lo > hi THEN ""
  ELSE IF lo = hi THEN f[lo]
  ELSE LET mid == (lo + hi) \div 2 IN Cat(f, lo, mid) \o Cat(f, mid + 1, hi)

toUpperCase(s) == Cat([i \in 1..Len(s) |-> UpChar(Ch(s, i))], 1, Len(s))
toLowerCase(s) == Cat([i \in 1..Len(s) |-> LowChar(Ch(s, i))], 1, Len(s))

Min(S) == CHOOSE m \in S : \A n \in S : m <= n
Max(S) == CHOOSE m \in S : \A n \in S : m >= n

trim(s) ==
  LET solid == {i \in 1..Len(s) : Ch(s, i) \notin SpaceSet}
  IN IF solid = {} THEN "" ELSE SubSeq(s, Min(solid), Max(solid))

startsWithAt(s, p, i) == i + Len(p) - 1 <= Len(s) /\ SubSeq(s, i, i + Len(p) - 1) = p

startsWith(s, p) == startsWithAt(s, p, 1)

includes(s, p) == \E i \in 1..(Len(s) - Len(p) + 1) : SubSeq(s, i, i + Len(p) - 1) = p

substring(s, a, b) == SubSeq(s, a + 1, IF b < Len(s) THEN b ELSE Len(s))

(* The k-th smallest element of a set of positions. *)
Nth(S, k) == CHOOSE p \in S : Cardinality({q \in S : q < p}) = k - 1

(* String.prototype.split for the separators the source uses (";", "\n",   *)
(* ",", and BQ followed by ","): two occurrences of such a separator never *)
(* overlap, so the cuts are all its occurrences.                           *)
split(s, sep) ==
  LET cuts == {i \in 1..Len(s) : startsWithAt(s, sep, i)}
      n == Cardinality(cuts)
  IN [k \in 1..(n + 1) |->
        SubSeq(s, IF k = 1 THEN 1 ELSE Nth(cuts, k - 1) + Len(sep),
                  IF k = n + 1 THEN Len(s) ELSE Nth(cuts, k) - 1)]

join(parts, sep) ==
  Cat([k \in 1..Len(parts) |-> IF k = 1 THEN parts[1] ELSE sep \o parts[k]], 1, Len(parts))

----------------------------------------------------------------------------
(* Regular expressions of the source.  A pattern is a sequence of          *)
(* elements [k, c, ci, q].  k is the kind of character accepted: "lit" for *)
(* the character c; "w" for \w; "s" for \s; "d" for \d; "not" for any      *)
(* character but c; "set" for any character of the string c; "mark" for a  *)
(* group boundary, which accepts nothing and *)
(* records its position.  ci is the i flag.  q is the quantifier: "1",     *)
(* "?", "*", "+" (greedy) or "+?" (lazy).  Quantifiers backtrack, as in    *)
(* the JavaScript engine.  Further kinds: "any" for [\s\S], "dot" for any   *)
(* character but a line terminator, and "opt" for the start of an optional *)
(* group (?:...)? made of the c elements that follow it; further           *)
(* quantifier: "*?" (lazy).                                                *)

El(k, c, ci, q) == [k |-> k, c |-> c, ci |-> ci, q |-> q]

Lit(str, ci) == [i \in 1..Len(str) |-> El("lit", Ch(str, i), ci, "1")]

Mark == El("mark", "", FALSE, "1")

Accepts(el, c) ==
  CASE el.k = "lit" -> IF el.ci THEN UpChar(c) = UpChar(el.c) ELSE c = el.c
    [] el.k = "not" -> IF el.ci THEN UpChar(c) # UpChar(el.c) ELSE c # el.c
    [] el.k = "set" -> \E j \in 1..Len(el.c) : Ch(el.c, j) = c
    [] el.k = "w" -> c \in WordSet
    [] el.k = "s" -> c \in SpaceSet
    [] el.k = "d" -> c \in DigitSet
    [] el.k = "any" -> TRUE
    [] el.k = "dot" -> c \notin {"\n", "\r"}

(* The length of the longest run of characters el accepts from position i. *)
RunLength(el, s, i) ==
  LET stop == {j \in i..Len(s) : ~Accepts(el, Ch(s, j))}
  IN IF stop = {} THEN Len(s) - i + 1 ELSE Min(stop) - i

(* The ways to go on from element k of a pattern at position i, in the     *)
(* order a backtracking matcher tries them, each the element and position  *)
(* to go on with: the group of an optional group of el.c elements first,    *)
(* then without it; the repetitions of a quantified element from the        *)
(* longest run, of length run, down (greedy) or from the fewest up (lazy).  *)
Alternatives(el, k, s, i, run) ==
  CASE el.k = "opt" -> << <<k + 1, i>>, <<k + 1 + el.c, i>> >>
    [] el.q = "?" -> IF run > 0 THEN << <<k + 1, i + 1>>, <<k + 1, i>> >> ELSE << <<k + 1, i>> >>
    [] el.q = "*" -> [n \in 1..(run + 1) |-> <<k + 1, i + run + 1 - n>>]
    [] el.q = "+" -> [n \in 1..run |-> <<k + 1, i + run + 1 - n>>]
    [] el.q = "+?" -> [n \in 1..run |-> <<k + 1, i + n>>]
    [] el.q = "*?" -> [n \in 1..(run + 1) |-> <<k + 1, i + n - 1>>]

(* The match r of the rest of a pattern after a mark met at position i. *)
Marked(i, r) == IF r = <<>> THEN <<>> ELSE <<i>> \o r

(* The number of elements from pat[k] on that each take one character.   *)
Stretch(pat, k) ==
  LET stop == {j \in k..Len(pat) : pat[j].k = "mark" \/ pat[j].q # "1"}
  IN IF stop = {} THEN Len(pat) - k + 1 ELSE Min(stop) - k

RECURSIVE MatchFrom(_, _, _, _)
RECURSIVE TryRepeat(_, _, _, _, _)

(* The match from the n elements pat[k..] that each take one character. *)
Literals(pat, k, s, i, n) ==
  IF /\ i <= Len(s) /\ Accepts(pat[k], Ch(s, i))
     /\ i + n - 1 <= Len(s)
     /\ \A j \in 1..(n - 1) : Accepts(pat[k + j], Ch(s, i + j))
  THEN MatchFrom(pat, k + n, s, i + n)
  ELSE <<>>

(* The match of pat[k..] that starts at position i of s: <<>> when there   *)
(* is none, else the positions of the marks met, in pattern order,         *)
(* followed by the position just after the match.                          *)
MatchFrom(pat, k, s, i) ==
  CASE k > Len(pat) -> <<i>>
    [] k <= Len(pat) /\ pat[k].k = "mark" -> Marked(i, MatchFrom(pat, k + 1, s, i))
    [] k <= Len(pat) /\ pat[k].k # "mark" /\ pat[k].q = "1" ->
         Literals(pat, k, s, i, Stretch(pat, k))
    [] OTHER -> TryRepeat(pat, s, Alternatives(pat[k], k, s, i, RunLength(pat[k], s, i)), 1, 0)

(* The first match among the n alternatives alts[lo..], tried in order, by *)
(* halves; n = 0 stands for all of them.                                   *)
TryRepeat(pat, s, alts, lo, n) ==
  IF n = 0 THEN (IF alts = <<>> THEN <<>> ELSE TryRepeat(pat, s, alts, 1, Len(alts)))
  ELSE IF n = 1 THEN MatchFrom(pat, alts[lo][1], s, alts[lo][2])
  ELSE LET r == TryRepeat(pat, s, alts, lo, n \div 2) IN
       IF r # <<>> THEN r ELSE TryRepeat(pat, s, alts, lo + n \div 2, n - n \div 2)

(* The position just after the match at i, or 0 when there is none. *)
MatchAt(pat, s, i) ==
  LET r == MatchFrom(pat, 1, s, i) IN IF r = <<>> THEN 0 ELSE r[Len(r)]

(* RegExp.prototype.test *)
test(pat, s) == \E i \in 1..Len(s) : MatchAt(pat, s, i) # 0

(* The text of group 1 of the match at i: between the first two marks. *)
Group1(pat, s, i) ==
  LET r == MatchFrom(pat, 1, s, i) IN IF Len(r) < 3 THEN "" ELSE SubSeq(s, r[1], r[2] - 1)

(* The start of an optional group of n elements. *)
Opt(n) == El("opt", n, FALSE, "group")

(* RegExp.prototype.exec and String.prototype.match: the first match that  *)
(* starts at lastIndex or after it, as MatchFrom gives it; <<>> when none. *)
Exec(pat, s, lastIndex) ==
  LET starts == {i \in lastIndex..Len(s) : MatchFrom(pat, 1, s, i) # <<>>} IN
  IF starts = {} THEN <<>> ELSE MatchFrom(pat, 1, s, Min(starts))

(* The text of group g of the match m: between marks 2g-1 and 2g. *)
GroupOf(m, s, g) == SubSeq(s, m[2 * g - 1], m[2 * g] - 1)

(* Concatenation of the sequences f[lo..hi], by halves. *)
RECURSIVE Flat(_, _, _)
Flat(f, lo, hi) ==
  IF lo > hi THEN <<>>
  ELSE IF lo = hi THEN f[lo]
  ELSE Flat(f, lo, (lo + hi) \div 2) \o Flat(f, (lo + hi) \div 2 + 1, hi)

(* String.prototype.replace with a global pattern: matches are taken left  *)
(* to right, do not overlap, and the replacement text is not rescanned.    *)
(* The replacement of a match is text, preceded by group 1 when withGroup  *)
(* (a replacement string '$1...').  ReplaceIn scans the positions lo..hi   *)
(* by halves, starting at position from; it yields the text produced and   *)
(* the position where the scan goes on (a match may end beyond hi).        *)
RECURSIVE ReplaceIn(_, _, _, _, _, _, _)
ReplaceIn(pat, s, withGroup, text, lo, hi, from) ==
  IF from > hi THEN [out |-> "", pos |-> from]
  ELSE IF lo = hi
  THEN LET e == MatchAt(pat, s, lo) IN
       IF e > lo
       THEN [out |-> (IF withGroup THEN Group1(pat, s, lo) ELSE "") \o text, pos |-> e]
       ELSE [out |-> Ch(s, lo), pos |-> lo + 1]
  ELSE LET mid == (lo + hi) \div 2
           left == ReplaceIn(pat, s, withGroup, text, lo, mid, from)
           right == ReplaceIn(pat, s, withGroup, text, mid + 1, hi, left.pos)
       IN [out |-> left.out \o right.out, pos |-> right.pos]

replaceAll(s, pat, text) ==
  IF s = "" THEN "" ELSE ReplaceIn(pat, s, FALSE, text, 1, Len(s), 1).out

replaceAllWithGroup(s, pat, text) ==
  IF s = "" THEN "" ELSE ReplaceIn(pat, s, TRUE, text, 1, Len(s), 1).out

----------------------------------------------------------------------------
(* convertMySQLToSQLite (src/lib/sql-executor.ts:217-255).                 *)

AnyWord == El("w", "", FALSE, "+")
AnySpace == El("s", "", FALSE, "*")
SomeSpace == El("s", "", FALSE, "+")
SomeDigits == El("d", "", FALSE, "+")

(* /ENGINE=\w+\s*/gi, /DEFAULT CHARSET=\w+\s*/gi, /AUTO_INCREMENT=\d+\s*/gi *)
EnginePattern == Lit("ENGINE=", TRUE) \o <<AnyWord, AnySpace>>
CharsetPattern == Lit("DEFAULT CHARSET=", TRUE) \o <<AnyWord, AnySpace>>
AutoIncSeedPattern == Lit("AUTO_INCREMENT=", TRUE) \o <<SomeDigits, AnySpace>>

(* /int\(\d+\)/gi and the other sized types: name, "(", digits, ")" *)
SizedType(name) == Lit(name, TRUE) \o Lit("(", FALSE) \o <<SomeDigits>> \o Lit(")", FALSE)

(* /(\`\w+\`)\s+INTEGER\s+NOT NULL\s+AUTO_INCREMENT/gi; the group is the   *)
(* quoted column name.                                                     *)
AutoIncColumnPattern ==
  <<Mark>> \o Lit(BQ, FALSE) \o <<AnyWord>> \o Lit(BQ, FALSE) \o <<Mark>>
    \o <<SomeSpace>> \o Lit("INTEGER", TRUE) \o <<SomeSpace>>
    \o Lit("NOT NULL", TRUE) \o <<SomeSpace>> \o Lit("AUTO_INCREMENT", TRUE)

(* /,\s*PRIMARY KEY\s*\([^)]+\)/gi *)
PrimaryKeyConstraintPattern ==
  Lit(",", FALSE) \o <<AnySpace>> \o Lit("PRIMARY KEY", TRUE) \o <<AnySpace>>
    \o Lit("(", FALSE) \o <<El("not", ")", FALSE, "+")>> \o Lit(")", FALSE)

(* /AUTO_INCREMENT/gi, /,\s*\)/g, /\s+/g *)
AutoIncPattern == Lit("AUTO_INCREMENT", TRUE)
TrailingCommaPattern == Lit(",", FALSE) \o <<AnySpace>> \o Lit(")", FALSE)
WhitespacePattern == <<SomeSpace>>

(* The seven type substitutions of lines 226-232, in source order. *)
TypeRules ==
  << <<SizedType("int"), "INTEGER">>,
     <<SizedType("tinyint"), "INTEGER">>,
     <<SizedType("varchar"), "TEXT">>,
     <<SizedType("char"), "TEXT">>,
     <<Lit("text", TRUE), "TEXT">>,
     <<Lit("datetime", TRUE), "TEXT">>,
     <<Lit("timestamp", TRUE), "TEXT">> >>

RECURSIVE ApplyRules(_, _, _)
ApplyRules(s, rules, k) ==
  IF k > Len(rules) THEN s
  ELSE ApplyRules(replaceAll(s, rules[k][1], rules[k][2]), rules, k + 1)

StripMySQLClauses(s) ==
  replaceAll(replaceAll(replaceAll(s, EnginePattern, ""), CharsetPattern, ""),
             AutoIncSeedPattern, "")

ConvertTypes(s) == ApplyRules(s, TypeRules, 1)

(* replacement '$1 INTEGER PRIMARY KEY AUTOINCREMENT' *)
CollapseAutoIncrement(s) ==
  replaceAllWithGroup(s, AutoIncColumnPattern, " INTEGER PRIMARY KEY AUTOINCREMENT")

DropPrimaryKeyConstraint(s) ==
  IF includes(s, "PRIMARY KEY AUTOINCREMENT")
  THEN replaceAll(s, PrimaryKeyConstraintPattern, "")
  ELSE s

CleanUp(s) ==
  trim(replaceAll(replaceAll(s, TrailingCommaPattern, ")"), WhitespacePattern, " "))

convertMySQLToSQLite(statement) ==
  CleanUp(replaceAll(DropPrimaryKeyConstraint(CollapseAutoIncrement(
            ConvertTypes(StripMySQLClauses(statement)))),
          AutoIncPattern, "AUTOINCREMENT"))

----------------------------------------------------------------------------
(* The statement splitter of initializeDatabase                            *)
(* (src/lib/sql-executor.ts:93-110).                                       *)

(* /CREATE\s+TABLE/i.test(sqlContent), line 82 *)
CreateTablePattern == Lit("CREATE", TRUE) \o <<SomeSpace>> \o Lit("TABLE", TRUE)

(* a variant that finds no CREATE TABLE in any text *)
hasCreateStatementsNever(sqlContent) == FALSE

hasCreateStatements(sqlContent) == test(CreateTablePattern, sqlContent)

(* the first filter, lines 97-102 *)
KeepStatement(stmt) ==
  /\ Len(stmt) # 0
  /\ ~(startsWith(stmt, "--") /\ ~includes(stmt, "CREATE") /\ ~includes(stmt, "INSERT"))

(* the line filter, line 106 *)
KeepLine(line) ==
  ~startsWith(trim(line), "--") \/ includes(line, "CREATE") \/ includes(line, "INSERT")

(* the second map, lines 103-109 *)
StripCommentLines(stmt) == trim(join(SelectSeq(split(stmt, "\n"), KeepLine), "\n"))

NonEmpty(stmt) == Len(stmt) > 0

SplitStatements(sqlContent) ==
  LET parts == split(sqlContent, ";")
      trimmed == [k \in 1..Len(parts) |-> trim(parts[k])]
      kept == SelectSeq(trimmed, KeepStatement)
      cleaned == [k \in 1..Len(kept) |-> StripCommentLines(kept[k])]
  IN SelectSeq(cleaned, NonEmpty)

----------------------------------------------------------------------------
(* createTablesFromInserts and its helpers                                 *)
(* (src/lib/sql-executor.ts:135-215).                                      *)

OptionalBQ == El("lit", BQ, FALSE, "?")

(* /INSERT\s+INTO\s+`?(\w+)`?\s*\(\s*`?([^)]+?)`?\s*\)\s+VALUES/gi *)
insertRegex ==
  Lit("INSERT", TRUE) \o <<SomeSpace>> \o Lit("INTO", TRUE) \o <<SomeSpace, OptionalBQ>>
    \o <<Mark, AnyWord, Mark>> \o <<OptionalBQ, AnySpace>> \o Lit("(", FALSE)
    \o <<AnySpace, OptionalBQ>> \o <<Mark, El("not", ")", FALSE, "+?"), Mark>>
    \o <<OptionalBQ, AnySpace>> \o Lit(")", FALSE) \o <<SomeSpace>> \o Lit("VALUES", TRUE)

NoMatch == [found |-> FALSE, lastIndex |-> 1, tableName |-> "", columnsStr |-> ""]

(* insertRegex.exec(sqlContent) with the scan resuming at lastIndex: the   *)
(* leftmost match at or after it.  lastIndex is kept 1-based.              *)
InsertExec(sqlContent, lastIndex) ==
  LET starts == {i \in lastIndex..Len(sqlContent) :
                   MatchFrom(insertRegex, 1, sqlContent, i) # <<>>}
  IN IF starts = {} THEN NoMatch
     ELSE LET r == MatchFrom(insertRegex, 1, sqlContent, Min(starts))
          IN [found |-> TRUE, lastIndex |-> r[5],
              tableName |-> SubSeq(sqlContent, r[1], r[2] - 1),
              columnsStr |-> SubSeq(sqlContent, r[3], r[4] - 1)]

(* replace(/^Q|Q$/g, '') for a class Q of quote characters: one leading    *)
(* and one trailing quote are removed.                                     *)
StripQuotes(s, quotes) ==
  LET n == Len(s)
      a == IF n >= 1 /\ Ch(s, 1) \in quotes THEN 2 ELSE 1
      b == IF n >= 2 /\ Ch(s, n) \in quotes THEN n - 1 ELSE n
  IN SubSeq(s, a, b)

(* lines 150-153 *)
ParseColumns(columnsStr) ==
  LET parts == split(columnsStr, BQ \o ",")
      names == [k \in 1..Len(parts) |-> StripQuotes(trim(parts[k]), {BQ})]
  IN SelectSeq(names, NonEmpty)

(* new RegExp(`INSERT\\s+INTO\\s+\`?${tableName}\`?[^V]+VALUES\\s*\\n?([^;]+)`, 'i') *)
valuesRegex(tableName) ==
  Lit("INSERT", TRUE) \o <<SomeSpace>> \o Lit("INTO", TRUE) \o <<SomeSpace, OptionalBQ>>
    \o Lit(tableName, TRUE) \o <<OptionalBQ, El("not", "V", TRUE, "+")>>
    \o Lit("VALUES", TRUE) \o <<AnySpace, El("lit", "\n", FALSE, "?")>>
    \o <<Mark, El("not", ";", FALSE, "+"), Mark>>

(* /\(([^)]+)\)/ *)
firstRowRegex ==
  Lit("(", FALSE) \o <<Mark, El("not", ")", FALSE, "+"), Mark>> \o Lit(")", FALSE)

(* String.prototype.match without the g flag: group 1 of the leftmost      *)
(* match, as <<text>>, or <<>> when the pattern matches nowhere.           *)
MatchGroup1(s, pat) ==
  LET starts == {i \in 1..Len(s) : MatchFrom(pat, 1, s, i) # <<>>}
  IN IF starts = {} THEN <<>> ELSE <<Group1(pat, s, Min(starts))>>

getSampleDataForTable(sqlContent, tableName) ==
  LET match == MatchGroup1(sqlContent, valuesRegex(tableName)) IN
  IF match = <<>> THEN <<>>
  ELSE LET firstRowMatch == MatchGroup1(match[1], firstRowRegex) IN
       IF firstRowMatch = <<>> THEN <<>>
       ELSE LET parts == split(firstRowMatch[1], ",")
            IN [k \in 1..Len(parts) |-> StripQuotes(trim(parts[k]), {"'", "\"", BQ})]

(* !isNaN(Number(v)) for a text v: the numeric literals of JavaScript,     *)
(* white space around them ignored; the empty text converts to 0.          *)
Sign == El("set", "+-", FALSE, "?")
Exponent == <<El("set", "eE", FALSE, "1"), Sign, SomeDigits>>
NumberPatterns ==
  { <<Sign, SomeDigits>>,
    <<Sign, SomeDigits>> \o Lit(".", FALSE) \o <<El("d", "", FALSE, "*")>>,
    <<Sign>> \o Lit(".", FALSE) \o <<SomeDigits>>,
    <<Sign, SomeDigits>> \o Exponent,
    <<Sign, SomeDigits>> \o Lit(".", FALSE) \o <<El("d", "", FALSE, "*")>> \o Exponent,
    <<Sign>> \o Lit(".", FALSE) \o <<SomeDigits>> \o Exponent,
    <<Sign>> \o Lit("Infinity", FALSE),
    Lit("0", FALSE) \o <<El("set", "xX", FALSE, "1"), El("set", "0123456789abcdefABCDEF", FALSE, "+")>>,
    Lit("0", FALSE) \o <<El("set", "oO", FALSE, "1"), El("set", "01234567", FALSE, "+")>>,
    Lit("0", FALSE) \o <<El("set", "bB", FALSE, "1"), El("set", "01", FALSE, "+")>> }

IsNumber(v) ==
  LET t == trim(v) IN t = "" \/ \E pat \in NumberPatterns : MatchAt(pat, t, 1) = Len(t) + 1

(* lines 196-212: the definition of the column at position index (from 1) *)
ColumnDefinition(col, index, sampleData) ==
  LET sampleValue == IF index <= Len(sampleData) THEN sampleData[index] ELSE ""
      type ==
        IF includes(toLowerCase(col), "id") /\ index = 1 THEN "INTEGER PRIMARY KEY"
        ELSE IF includes(toLowerCase(col), "id") THEN "INTEGER"
        ELSE IF IsNumber(sampleValue) /\ sampleValue # "" /\ sampleValue # "null"
             THEN (IF includes(sampleValue, ".") THEN "REAL" ELSE "INTEGER")
        ELSE IF sampleValue = "0" \/ sampleValue = "1" THEN "INTEGER"
        ELSE "TEXT"
  IN BQ \o col \o BQ \o " " \o type

generateCreateTableSQL(tableName, columns, sampleData) ==
  LET columnDefinitions == [k \in 1..Len(columns) |-> ColumnDefinition(columns[k], k, sampleData)]
  IN "CREATE TABLE IF NOT EXISTS " \o BQ \o tableName \o BQ \o " (\n  "
       \o join(columnDefinitions, ",\n  ") \o "\n);"

----------------------------------------------------------------------------
(* The schema extractor (src/lib/schema-extractor.ts:56-163, and           *)
(* src/unnamed/part_002:204-427, which adds the inference from INSERT).    *)
(* A column is [name, type, nullable, primaryKey, foreignKey, trailing]:   *)
(* foreignKey is <<>> when undefined, else <<table, column>>; trailing is  *)
(* columnMatch[3], kept beside the fields of the source.                   *)

Letters == LowerChars \o UpperChars
Identifier == <<El("set", Letters \o "_", FALSE, "1"), El("w", "", FALSE, "*")>>

IfNotExists ==
  <<Opt(14)>> \o Lit("IF", TRUE) \o <<SomeSpace>> \o Lit("NOT", TRUE) \o <<SomeSpace>>
    \o Lit("EXISTS", TRUE) \o <<SomeSpace>>

(* line 60: groups are the table name and the table definition *)
createTableRegex ==
  Lit("CREATE", TRUE) \o <<SomeSpace>> \o Lit("TABLE", TRUE) \o <<SomeSpace>> \o IfNotExists
    \o <<OptionalBQ, Mark>> \o Identifier \o <<Mark, OptionalBQ, AnySpace>> \o Lit("(", FALSE)
    \o <<Mark, El("any", "", FALSE, "*?"), Mark>> \o Lit(");", FALSE)

(* line 98: groups are the column name, the column type and the constraints *)
columnRegex ==
  <<OptionalBQ, Mark>> \o Identifier \o <<Mark, OptionalBQ, SomeSpace>>
    \o <<Mark, El("set", Letters, FALSE, "+"), Opt(7)>> \o Lit("(", FALSE) \o <<SomeDigits, Opt(3)>>
    \o Lit(",", FALSE) \o <<AnySpace, SomeDigits>> \o Lit(")", FALSE)
    \o <<Mark, AnySpace, Mark, El("dot", "", FALSE, "*"), Mark>>

(* line 121: groups are the table and the column referred to *)
foreignKeyRegex ==
  Lit("REFERENCES", TRUE) \o <<SomeSpace, OptionalBQ, Mark>> \o Identifier
    \o <<Mark, OptionalBQ, AnySpace>> \o Lit("(", FALSE) \o <<AnySpace, OptionalBQ, Mark>>
    \o Identifier \o <<Mark, OptionalBQ, AnySpace>> \o Lit(")", FALSE)

(* line 137: the group is the index name *)
indexRegex(tableName) ==
  Lit("CREATE", TRUE) \o <<SomeSpace, Opt(7)>> \o Lit("UNIQUE", TRUE) \o <<SomeSpace>>
    \o Lit("INDEX", TRUE) \o <<SomeSpace>> \o IfNotExists
    \o <<OptionalBQ, Mark>> \o Identifier \o <<Mark, OptionalBQ, SomeSpace>>
    \o Lit("ON", TRUE) \o <<SomeSpace, OptionalBQ>> \o Lit(tableName, TRUE) \o <<OptionalBQ>>

(* lines 120-131 *)
ForeignKeyOf(m, constraints) ==
  IF m = <<>> THEN <<>> ELSE <<GroupOf(m, constraints, 1), GroupOf(m, constraints, 2)>>

extractForeignKey(constraints) == ForeignKeyOf(Exec(foreignKeyRegex, constraints, 1), constraints)

(* lines 88-93 *)
IsConstraintLine(trimmed) ==
  \/ startsWith(trimmed, "PRIMARY KEY")
  \/ startsWith(trimmed, "FOREIGN KEY")
  \/ startsWith(trimmed, "UNIQUE")
  \/ startsWith(trimmed, "INDEX")
  \/ startsWith(trimmed, "KEY")
  \/ startsWith(trimmed, "CONSTRAINT")

(* a variant that looks for the keywords in the letter case of the text *)
ColumnOfCaseSensitive(columnName, columnType, constraints) ==
  [name |-> columnName,
   type |-> columnType,
   nullable |-> ~includes(constraints, "NOT NULL"),
   primaryKey |-> includes(constraints, "PRIMARY KEY"),
   foreignKey |-> extractForeignKey(constraints),
   trailing |-> constraints]

(* lines 105-111 *)
ColumnOf(columnName, columnType, constraints) ==
  [name |-> columnName,
   type |-> columnType,
   nullable |-> ~includes(toUpperCase(constraints), "NOT NULL"),
   primaryKey |-> includes(toUpperCase(constraints), "PRIMARY KEY"),
   foreignKey |-> extractForeignKey(constraints),
   trailing |-> constraints]

(* lines 98-114: the columns a line of the definition gives, none or one *)
ColumnOfMatch(m, trimmed) ==
  IF m = <<>> THEN <<>>
  ELSE <<ColumnOf(GroupOf(m, trimmed, 1), GroupOf(m, trimmed, 2), GroupOf(m, trimmed, 3))>>

(* lines 85-114: one pass of the for loop *)
ColumnsOfLine(trimmed) ==
  IF IsConstraintLine(trimmed) THEN <<>>
  ELSE ColumnOfMatch(Exec(columnRegex, trimmed, 1), trimmed)

ColumnsOfLines(lines) ==
  Flat([k \in 1..Len(lines) |-> ColumnsOfLine(trim(lines[k]))], 1, Len(lines))

(* lines 80-118 *)
extractColumns(tableDefinition) == ColumnsOfLines(split(tableDefinition, ","))

(* lines 139-142: the while loop from lastIndex on *)
RECURSIVE IndexesFrom(_, _, _)
IndexesFrom(pat, sqlContent, lastIndex) ==
  LET m == Exec(pat, sqlContent, lastIndex) IN
  IF m = <<>> THEN <<>>
  ELSE <<GroupOf(m, sqlContent, 1)>> \o IndexesFrom(pat, sqlContent, m[Len(m)])

(* lines 133-145 *)
extractIndexes(sqlContent, tableName) == IndexesFrom(indexRegex(tableName), sqlContent, 1)

(* lines 64-74 *)
TableOfMatch(m, sqlContent) ==
  [name |-> GroupOf(m, sqlContent, 1),
   columns |-> extractColumns(GroupOf(m, sqlContent, 2)),
   indexes |-> extractIndexes(sqlContent, GroupOf(m, sqlContent, 1))]

(* lines 63-75: the while loop from lastIndex on *)
RECURSIVE TablesFrom(_, _)
TablesFrom(sqlContent, lastIndex) ==
  LET m == Exec(createTableRegex, sqlContent, lastIndex) IN
  IF m = <<>> THEN <<>>
  ELSE <<TableOfMatch(m, sqlContent)>> \o TablesFrom(sqlContent, m[Len(m)])

(* lines 56-78 *)
extractTables(sqlContent) == TablesFrom(sqlContent, 1)

(* a variant whose edge runs from the referenced column to the column *)
RelationshipsOfColumnReversed(tableName, column) ==
  IF column.foreignKey = <<>> THEN <<>>
  ELSE << [from |-> column.foreignKey,
           to |-> <<tableName, column.name>>,
           type |-> "many-to-one"] >>

(* lines 152-158 *)
RelationshipsOfColumn(tableName, column) ==
  IF column.foreignKey = <<>> THEN <<>>
  ELSE << [from |-> <<tableName, column.name>>,
           to |-> column.foreignKey,
           type |-> "many-to-one"] >>

RelationshipsOfTable(table) ==
  Flat([k \in 1..Len(table.columns) |-> RelationshipsOfColumn(table.name, table.columns[k])],
       1, Len(table.columns))

(* lines 147-163 *)
extractRelationships(tables) ==
  Flat([t \in 1..Len(tables) |-> RelationshipsOfTable(tables[t])], 1, Len(tables))

(* part_002:353-368: the type inferred for the column at position index   *)
(* (from 1)                                                                *)
InferredType(colName, index, sampleValue) ==
  IF includes(toLowerCase(colName), "id") /\ index = 1 THEN "INTEGER"
  ELSE IF includes(toLowerCase(colName), "id") THEN "INTEGER"
  ELSE IF IsNumber(sampleValue) /\ sampleValue # "" /\ sampleValue # "null"
       THEN (IF includes(sampleValue, ".") THEN "REAL" ELSE "INTEGER")
  ELSE IF sampleValue = "0" \/ sampleValue = "1" THEN "INTEGER"
  ELSE "TEXT"

(* a variant that marks every column whose name contains "id" *)
InferredColumnAnyPosition(colName, index, sampleData) ==
  [name |-> colName,
   type |-> InferredType(colName, index, IF index <= Len(sampleData) THEN sampleData[index] ELSE ""),
   nullable |-> TRUE,
   primaryKey |-> includes(toLowerCase(colName), "id"),
   foreignKey |-> <<>>,
   trailing |-> ""]

(* part_002:353-376 *)
InferredColumn(colName, index, sampleData) ==
  [name |-> colName,
   type |-> InferredType(colName, index, IF index <= Len(sampleData) THEN sampleData[index] ELSE ""),
   nullable |-> TRUE,
   primaryKey |-> includes(toLowerCase(colName), "id") /\ index = 1,
   foreignKey |-> <<>>,
   trailing |-> ""]

InferredColumns(columnNames, sampleData) ==
  [k \in 1..Len(columnNames) |-> InferredColumn(columnNames[k], k, sampleData)]

(* part_002:336-382 *)
InferredTable(sqlContent, tableName, columnsStr) ==
  [name |-> tableName,
   columns |-> InferredColumns(ParseColumns(columnsStr), getSampleDataForTable(sqlContent, tableName)),
   indexes |-> <<>>]

(* part_002:335-385: the while loop from lastIndex on *)
RECURSIVE InsertTablesFrom(_, _, _)
InsertTablesFrom(sqlContent, lastIndex, tablesProcessed) ==
  LET m == InsertExec(sqlContent, lastIndex) IN
  IF ~m.found THEN <<>>
  ELSE IF m.tableName \in tablesProcessed
  THEN InsertTablesFrom(sqlContent, m.lastIndex, tablesProcessed)
  ELSE <<InferredTable(sqlContent, m.tableName, m.columnsStr)>>
         \o InsertTablesFrom(sqlContent, m.lastIndex, tablesProcessed \cup {m.tableName})

(* part_002:329-388 *)
extractTablesFromInserts(sqlContent) == InsertTablesFrom(sqlContent, 1, {})

(* part_002:207-217 *)
SchemaTables(sqlContent) ==
  IF hasCreateStatements(sqlContent) THEN extractTables(sqlContent)
  ELSE extractTablesFromInserts(sqlContent)

----------------------------------------------------------------------------
(* Bounds of the model and the texts it is run on.                         *)

MaxStatements == 3
MaxToolCalls == 2

(* The statements a dump file is made of.  kind and table say what the     *)
(* statement is meant to be; the program only ever sees text.              *)
(* 1 and 3 are S1 and S3 of the specification's partial-failure scenario,  *)
(* 2 is a CREATE TABLE with mismatched parentheses.                        *)
Catalog ==
  << [text |-> "CREATE TABLE t(id INTEGER PRIMARY KEY, name TEXT)",
      kind |-> "create", table |-> "t"],
     [text |-> "CREATE TABLE u (id INTEGER, (name TEXT)",
      kind |-> "malformed", table |-> "u"],
     [text |-> "INSERT INTO t(id, name) VALUES (1, 'a')",
      kind |-> "insert", table |-> "t"],
     [text |-> "INSERT INTO " \o BQ \o "u" \o BQ \o " (" \o BQ \o "uid" \o BQ \o ","
                 \o BQ \o "n" \o BQ \o ") VALUES (7, 2.5)",
      kind |-> "insert", table |-> "u"] >>

(* A dump is a sequence of at most MaxStatements statements of the catalog; *)
(* its file holds each statement followed by ";" and a line break.          *)
Dumps == UNION {[1..n -> 1..Len(Catalog)] : n \in 0..MaxStatements}

FileText(d) == Cat([k \in 1..Len(d) |-> Catalog[d[k]].text \o ";\n"], 1, Len(d))

----------------------------------------------------------------------------
(* The store: sqlite3.Database as SQLExecutor uses it                      *)
(* (src/lib/sql-executor.ts:12, 24, 33, 50).  db is the set of the tables  *)
(* of the database file, each <<name, number of rows>>.  The store knows   *)
(* CREATE TABLE [IF NOT EXISTS], INSERT INTO ... VALUES, SELECT, WITH and  *)
(* PRAGMA; it rejects any other text, and text whose parentheses do not    *)
(* match.                                                                  *)

VARIABLES
  handles,  \* the Database objects created so far: state, close() calls, close result
  calls,    \* the executeQuery calls made so far, in the order they were made
  db        \* the tables of the database file

storeVars == <<handles, calls, db>>

(* initializeDatabase (src/lib/sql-executor.ts:76-133) *)
VARIABLES
  dump,           \* the statements of the uploaded file (indices of Catalog)
  pc,             \* where the run is
  sqlContent,     \* line 77
  executor,       \* line 78: the handle of the run, 0 before it exists
  lastIndex,      \* insertRegex.lastIndex, from 1
  tablesCreated,  \* line 138
  creating,       \* tableName of the CREATE TABLE being awaited
  statements,     \* line 94
  idx,            \* the position of the for loop of line 113, from 1
  awaiting,       \* the executeQuery call the run awaits
  thrown,         \* the error caught at line 127, NoError when none
  warnings,       \* the statements whose failure line 120 logged
  outcome,        \* the promise of initializeDatabase: "pending", "resolved", "rejected"
  outcomeError    \* what it was rejected with

driverVars == <<dump, pc, sqlContent, executor, lastIndex, tablesCreated, creating,
                statements, idx, awaiting, thrown, warnings, outcome, outcomeError>>

(* execute_sql_query (src/lib/chat-agent.ts:29-49) *)
VARIABLES
  toolPc,        \* "idle", "query" (awaiting executeQuery), "close" (awaiting close)
  toolExecutor,  \* the handle of the call in progress
  toolAwaiting,  \* its executeQuery call
  toolReturns    \* what the calls made so far returned

toolVars == <<toolPc, toolExecutor, toolAwaiting, toolReturns>>

(* convertMySQLToSQLite applied to a statement and to its own result *)
VARIABLES
  convPc,     \* "ready", "once", "twice"
  convIn,     \* the statement
  convOnce,   \* convertMySQLToSQLite(convIn)
  convTwice   \* convertMySQLToSQLite(convOnce)

convVars == <<convPc, convIn, convOnce, convTwice>>

(* The state of a run of extractDatabaseSchema (part_002:204-236).          *)
VARIABLES
  schDump,          \* the statements of the dump file, as described below
  schPc,            \* where the run is
  schContent,       \* sqlContent
  schTables,        \* tables
  schRelationships, \* relationships
  schFile           \* schema.json: <<>> or the one schema written

schemaVars == <<schDump, schPc, schContent, schTables, schRelationships, schFile>>

(* The data directory, an upload request (part_001:8-65) and a call of    *)
(* DatabaseChatAgent.chat (src/lib/chat-agent.ts:138-182).                 *)
VARIABLES
  dirs,         \* the directories that exist
  sqlFiles,     \* the uploaded files: path -> the statements of the dump
  schemaFiles,  \* the JSON files written by extractDatabaseSchema: path -> text
  databases,    \* the database files: path -> tables
  postPc,       \* where the request is
  postToken,    \* formData.get('sessionToken'), "" when there is none
  postName,     \* file.name, "" when there is no file
  postDump,     \* the statements of the file
  postSchema,   \* what extractDatabaseSchema returned, and where it wrote
  response,     \* the status of the response, 0 before there is one
  uploads,      \* the number of requests received
  chatPc,       \* "idle", "initialized", "returned", "thrown"
  chatToken,    \* the session of the agent
  chatSchema,   \* this.schema
  modelCalls    \* the number of times the agent executor was invoked

sessionVars == <<dirs, sqlFiles, schemaFiles, databases, postPc, postToken, postName, postDump,
                 postSchema, response, uploads, chatPc, chatToken, chatSchema, modelCalls>>

(* The statement splitter (src/lib/sql-executor.ts:93-110) on a text. *)
VARIABLES
  splitPc,   \* "idle", "ready", "split"
  splitIn,   \* the stretches of text between the semicolons of the file
  splitOut   \* statements

splitVars == <<splitPc, splitIn, splitOut>>

vars == <<handles, calls, db, dump, pc, sqlContent, executor, lastIndex, tablesCreated,
          creating, statements, idx, awaiting, thrown, warnings, outcome, outcomeError,
          toolPc, toolExecutor, toolAwaiting, toolReturns, convPc, convIn, convOnce, convTwice,
          schDump, schPc, schContent, schTables, schRelationships, schFile,
          dirs, sqlFiles, schemaFiles, databases, postPc, postToken, postName, postDump,
          postSchema, response, uploads, chatPc, chatToken, chatSchema, modelCalls,
          splitPc, splitIn, splitOut>>

StoreCreatePattern ==
  Lit("CREATE", TRUE) \o <<SomeSpace>> \o Lit("TABLE", TRUE) \o <<SomeSpace, OptionalBQ>>
    \o <<Mark, AnyWord, Mark>> \o <<OptionalBQ, AnySpace>> \o Lit("(", FALSE)
    \o <<AnySpace, El("not", ")", FALSE, "1")>>

StoreCreateIfNotExistsPattern ==
  Lit("CREATE", TRUE) \o <<SomeSpace>> \o Lit("TABLE", TRUE) \o <<SomeSpace>>
    \o Lit("IF", TRUE) \o <<SomeSpace>> \o Lit("NOT", TRUE) \o <<SomeSpace>>
    \o Lit("EXISTS", TRUE) \o <<SomeSpace, OptionalBQ>>
    \o <<Mark, AnyWord, Mark>> \o <<OptionalBQ, AnySpace>> \o Lit("(", FALSE)
    \o <<AnySpace, El("not", ")", FALSE, "1")>>

StoreInsertPattern ==
  Lit("INSERT", TRUE) \o <<SomeSpace>> \o Lit("INTO", TRUE) \o <<SomeSpace, OptionalBQ>>
    \o <<Mark, AnyWord, Mark>> \o <<OptionalBQ, El("not", ";", FALSE, "+?")>>
    \o Lit("VALUES", TRUE)

StoreSelectFromPattern ==
  Lit("SELECT", TRUE) \o <<SomeSpace, El("not", ";", FALSE, "+?"), SomeSpace>>
    \o Lit("FROM", TRUE) \o <<SomeSpace, OptionalBQ>> \o <<Mark, AnyWord, Mark>>

StoreSelectPattern == Lit("SELECT", TRUE) \o <<SomeSpace>>
StoreWithPattern == Lit("WITH", TRUE) \o <<SomeSpace>>
StorePragmaPattern == Lit("PRAGMA", TRUE) \o <<SomeSpace>>

Count(s, c) == Cardinality({i \in 1..Len(s) : Ch(s, i) = c})

TableOf(pat, q) == toLowerCase(Group1(pat, q, 1))

Parsed(op, table, rows) == [op |-> op, table |-> table, rows |-> rows]

ParseTrimmed(q) ==
  IF Count(q, "(") # Count(q, ")") THEN Parsed("error", "", 0)
  ELSE IF MatchAt(StoreCreateIfNotExistsPattern, q, 1) # 0
    THEN Parsed("createIfNotExists", TableOf(StoreCreateIfNotExistsPattern, q), 0)
  ELSE IF MatchAt(StoreCreatePattern, q, 1) # 0
    THEN Parsed("create", TableOf(StoreCreatePattern, q), 0)
  ELSE IF MatchAt(StoreInsertPattern, q, 1) # 0
    THEN Parsed("insert", TableOf(StoreInsertPattern, q),
                Count(SubSeq(q, MatchAt(StoreInsertPattern, q, 1), Len(q)), "("))
  ELSE IF MatchAt(StoreSelectFromPattern, q, 1) # 0
    THEN Parsed("selectFrom", TableOf(StoreSelectFromPattern, q), 0)
  ELSE IF MatchAt(StoreSelectPattern, q, 1) # 0 \/ MatchAt(StoreWithPattern, q, 1) # 0
    THEN Parsed("select", "", 0)
  ELSE IF MatchAt(StorePragmaPattern, q, 1) # 0
    THEN Parsed("pragma", "", 0)
  ELSE Parsed("error", "", 0)

(* What the store understands a text to be. *)
StoreParse(query) == ParseTrimmed(trim(query))

HasTable(d, t) == \E r \in d : r[1] = t
RowsOf(d, t) == (CHOOSE r \in d : r[1] = t)[2]

NoError == "null"
StoreFault == "SQLITE_IOERR: disk I/O error"
SyntaxError == "SQLITE_ERROR: syntax error"
TableExists == "SQLITE_ERROR: table already exists"
NoSuchTable == "SQLITE_ERROR: no such table"
HandleClosed == "SQLITE_MISUSE: Database is closed"
CloseBusy == "SQLITE_BUSY: unable to close"
CannotOpen == "SQLITE_CANTOPEN: unable to open database file"
FileMissing == "ENOENT: no such file or directory"

Reply(err, d, rows, changes, lastID) ==
  [err |-> err, db |-> d, rows |-> rows, changes |-> changes, lastID |-> lastID]

(* What the store hands to the callback of db.all / db.run for a text, and *)
(* the database it leaves.  fault: the store fails for a reason of its own *)
(* (disk, lock), whatever the text.  A row is its number in its table.     *)
ReplyTo(p, state, d, fault) ==
  IF state = "closed" THEN Reply(HandleClosed, d, <<>>, 0, 0)
  ELSE IF fault THEN Reply(StoreFault, d, <<>>, 0, 0)
  ELSE CASE p.op = "error" -> Reply(SyntaxError, d, <<>>, 0, 0)
         [] p.op = "create" ->
              IF HasTable(d, p.table) THEN Reply(TableExists, d, <<>>, 0, 0)
              ELSE Reply(NoError, d \cup {<<p.table, 0>>}, <<>>, 0, 0)
         [] p.op = "createIfNotExists" ->
              Reply(NoError, IF HasTable(d, p.table) THEN d ELSE d \cup {<<p.table, 0>>},
                    <<>>, 0, 0)
         [] p.op = "insert" ->
              IF ~HasTable(d, p.table) THEN Reply(NoSuchTable, d, <<>>, 0, 0)
              ELSE Reply(NoError,
                         (d \ {<<p.table, RowsOf(d, p.table)>>})
                           \cup {<<p.table, RowsOf(d, p.table) + p.rows>>},
                         <<>>, p.rows, RowsOf(d, p.table) + p.rows)
         [] p.op = "selectFrom" ->
              IF ~HasTable(d, p.table) THEN Reply(NoSuchTable, d, <<>>, 0, 0)
              ELSE Reply(NoError, d, [i \in 1..RowsOf(d, p.table) |-> i], 0, 0)
         [] p.op = "select" -> Reply(NoError, d, <<1>>, 0, 0)
         [] p.op = "pragma" -> Reply(NoError, d, <<>>, 0, 0)

StoreReply(state, query, d, fault) == ReplyTo(StoreParse(query), state, d, fault)

----------------------------------------------------------------------------
(* SQLExecutor (src/lib/sql-executor.ts:6-74).                             *)

(* new sqlite3.Database(path), line 12.  The constructor is given no       *)
(* callback and no 'error' listener is registered: when the file cannot be *)
(* opened the object is returned all the same ("dead") and the store       *)
(* answers none of the calls queued on it; "throws" is a binding that      *)
(* fails inside the constructor.                                           *)
OpenOutcomes == {"open", "dead", "throws"}

NewHandle(opened) ==
  [state |-> opened, closeCalls |-> 0, closeStatus |-> "none", closeError |-> NoError]

(* a variant that leaves out trim() *)
IsReadQueryUntrimmed(query) ==
  \/ startsWith(toUpperCase(query), "SELECT")
  \/ startsWith(toUpperCase(query), "WITH")
  \/ startsWith(toUpperCase(query), "PRAGMA")

(* lines 18-22 *)
IsReadQuery(query) ==
  LET trimmedQuery == toUpperCase(trim(query))
  IN \/ startsWith(trimmedQuery, "SELECT")
     \/ startsWith(trimmedQuery, "WITH")
     \/ startsWith(trimmedQuery, "PRAGMA")

Route(query) == IF IsReadQuery(query) THEN "all" ELSE "run"

NoReply == [err |-> NoError, rows |-> <<>>, changes |-> 0, lastID |-> 0]

(* A call of executeQuery on handle h.  Ghost fields: src and item (which  *)
(* loop made the call, and for which statement or table), late (close()    *)
(* had already been called on h), settles (how many times resolve or       *)
(* reject was called) and reply (what the store handed to the callback).   *)
NewCall(h, query, src, item) ==
  [h |-> h, query |-> query, path |-> Route(query), src |-> src, item |-> item,
   late |-> h \in DOMAIN handles /\ handles[h].closeCalls > 0,
   status |-> "pending", settles |-> 0, result |-> <<>>, error |-> NoError,
   reply |-> NoReply]

(* a variant that resolves whatever err is *)
OnAllIgnoringError(call, err, rows) ==
  [call EXCEPT !.status = "resolved", !.settles = @ + 1, !.result = rows]

(* lines 24-30: the callback of db.all *)
OnAll(call, err, rows) ==
  IF err # NoError
  THEN [call EXCEPT !.status = "rejected", !.settles = @ + 1, !.error = err]
  ELSE [call EXCEPT !.status = "resolved", !.settles = @ + 1, !.result = rows]

(* lines 33-43: the callback of db.run; changes and lastID are this.changes *)
(* and this.lastID                                                         *)
OnRun(call, err, changes, lastID) ==
  IF err # NoError
  THEN [call EXCEPT !.status = "rejected", !.settles = @ + 1, !.error = err]
  ELSE [call EXCEPT !.status = "resolved", !.settles = @ + 1,
                    !.result = << [changes |-> changes, lastID |-> lastID,
                                   message |-> <<"Query executed successfully. ", changes,
                                                 " row(s) affected.">>] >>]

Pending(h) == {c \in 1..Len(calls) : calls[c].h = h /\ calls[c].status = "pending"}

(* The store runs the oldest call queued on a handle and calls back. *)
StoreCallback ==
  \E c \in 1..Len(calls), fault \in BOOLEAN :
    /\ calls[c].status = "pending"
    /\ c = Min(Pending(calls[c].h))
    /\ handles[calls[c].h].state # "dead"
    /\ \E r \in {StoreReply(handles[calls[c].h].state, calls[c].query, db, fault)} :
         /\ calls' = [calls EXCEPT ![c] =
                        [(IF @.path = "all" THEN OnAll(@, r.err, r.rows)
                          ELSE OnRun(@, r.err, r.changes, r.lastID))
                         EXCEPT !.reply = [err |-> r.err, rows |-> r.rows,
                                           changes |-> r.changes, lastID |-> r.lastID]]]
         /\ db' = r.db
    /\ UNCHANGED handles
    /\ UNCHANGED <<driverVars, toolVars, convVars, schemaVars, sessionVars, splitVars>>

(* close(), lines 48-58 *)
CloseCall(h) ==
  [handles EXCEPT ![h].closeCalls = @ + 1, ![h].closeStatus = "pending"]

(* The callback of db.close: the store closes the handle once the calls    *)
(* queued on it are done, or fails and leaves it open.                     *)
CloseCallback ==
  \E h \in 1..Len(handles), ok \in BOOLEAN :
    /\ handles[h].closeStatus = "pending"
    /\ handles[h].state # "dead"
    /\ Pending(h) = {}
    /\ handles' = [handles EXCEPT ![h] =
         IF handles[h].state = "closed" THEN [@ EXCEPT !.closeStatus = "rejected", !.closeError = HandleClosed]
         ELSE IF ok THEN [@ EXCEPT !.state = "closed", !.closeStatus = "resolved"]
         ELSE [@ EXCEPT !.closeStatus = "rejected", !.closeError = CloseBusy]]
    /\ UNCHANGED <<calls, db>>
    /\ UNCHANGED <<driverVars, toolVars, convVars, schemaVars, sessionVars, splitVars>>

----------------------------------------------------------------------------
(* initializeDatabase and createTablesFromInserts                          *)
(* (src/lib/sql-executor.ts:76-172), one step per stretch of code between  *)
(* two awaits.                                                             *)

DriverInit ==
  /\ dump \in Dumps
  /\ pc = "readFile"
  /\ sqlContent = ""
  /\ executor = 0
  /\ lastIndex = 1
  /\ tablesCreated = {}
  /\ creating = ""
  /\ statements = <<>>
  /\ idx = 1
  /\ awaiting = 0
  /\ thrown = NoError
  /\ warnings = <<>>
  /\ outcome = "pending"
  /\ outcomeError = NoError

(* await: the awaited promise has settled *)
(* a variant that does not await *)
SettledOrNot(c) == TRUE

Settled(c) == calls[c].status # "pending"

Reject(err) == outcome' = "rejected" /\ outcomeError' = err /\ pc' = "done"

(* line 77 *)
ReadFile ==
  /\ pc = "readFile"
  /\ \E ok \in BOOLEAN :
       IF ok
       THEN /\ sqlContent' = FileText(dump)
            /\ pc' = "construct"
            /\ UNCHANGED <<outcome, outcomeError>>
       ELSE /\ Reject(FileMissing)
            /\ UNCHANGED sqlContent
  /\ UNCHANGED <<dump, executor, lastIndex, tablesCreated, creating, statements, idx,
                 awaiting, thrown, warnings>>
  /\ UNCHANGED storeVars
  /\ UNCHANGED <<toolVars, convVars, schemaVars, sessionVars, splitVars>>

(* line 78, before the try block *)
Construct ==
  /\ pc = "construct"
  /\ \E o \in OpenOutcomes :
       IF o = "throws"
       THEN /\ Reject(CannotOpen)
            /\ UNCHANGED <<executor, handles>>
       ELSE /\ handles' = Append(handles, NewHandle(o))
            /\ executor' = Len(handles) + 1
            /\ pc' = "try"
            /\ UNCHANGED <<outcome, outcomeError>>
  /\ UNCHANGED <<dump, sqlContent, lastIndex, tablesCreated, creating, statements, idx,
                 awaiting, thrown, warnings, calls, db>>
  /\ UNCHANGED <<toolVars, convVars, schemaVars, sessionVars, splitVars>>

(* lines 80-91 *)
EnterTry ==
  /\ pc = "try"
  /\ pc' = IF ~hasCreateStatements(sqlContent) THEN "infer" ELSE "split"
  /\ UNCHANGED <<dump, sqlContent, executor, lastIndex, tablesCreated, creating, statements,
                 idx, awaiting, thrown, warnings, outcome, outcomeError>>
  /\ UNCHANGED storeVars
  /\ UNCHANGED <<toolVars, convVars, schemaVars, sessionVars, splitVars>>

(* lines 141-165: the while loop up to its await *)
InferNext ==
  /\ pc = "infer"
  /\ LET match == InsertExec(sqlContent, lastIndex) IN
     IF ~match.found
     THEN /\ pc' = "split"
          /\ UNCHANGED <<lastIndex, creating, awaiting, calls>>
     ELSE IF match.tableName \in tablesCreated
     THEN /\ lastIndex' = match.lastIndex
          /\ UNCHANGED <<pc, creating, awaiting, calls>>
     ELSE LET columns == ParseColumns(match.columnsStr)
              sampleData == getSampleDataForTable(sqlContent, match.tableName)
              createTableSQL == generateCreateTableSQL(match.tableName, columns, sampleData)
          IN /\ calls' = Append(calls, NewCall(executor, createTableSQL, "infer", match.tableName))
             /\ awaiting' = Len(calls) + 1
             /\ creating' = match.tableName
             /\ lastIndex' = match.lastIndex
             /\ pc' = "inferAwait"
  /\ UNCHANGED <<dump, sqlContent, executor, tablesCreated, statements, idx, thrown,
                 warnings, outcome, outcomeError, handles, db>>
  /\ UNCHANGED <<toolVars, convVars, schemaVars, sessionVars, splitVars>>

(* lines 165-170: after the await; a failure is logged and thrown again *)
InferResume ==
  /\ pc = "inferAwait"
  /\ Settled(awaiting)
  /\ IF calls[awaiting].status = "rejected"
     THEN /\ thrown' = calls[awaiting].error
          /\ pc' = "catch"
          /\ UNCHANGED tablesCreated
     ELSE /\ tablesCreated' = tablesCreated \cup {creating}
          /\ pc' = "infer"
          /\ UNCHANGED thrown
  /\ UNCHANGED <<dump, sqlContent, executor, lastIndex, creating, statements, idx, awaiting,
                 warnings, outcome, outcomeError>>
  /\ UNCHANGED storeVars
  /\ UNCHANGED <<toolVars, convVars, schemaVars, sessionVars, splitVars>>

(* lines 93-110 *)
Split ==
  /\ pc = "split"
  /\ statements' = SplitStatements(sqlContent)
  /\ idx' = 1
  /\ pc' = "loop"
  /\ UNCHANGED <<dump, sqlContent, executor, lastIndex, tablesCreated, creating, awaiting,
                 thrown, warnings, outcome, outcomeError>>
  /\ UNCHANGED storeVars
  /\ UNCHANGED <<toolVars, convVars, schemaVars, sessionVars, splitVars>>

(* lines 113-118: the for loop up to its await *)
LoopNext ==
  /\ pc = "loop"
  /\ IF idx > Len(statements)
     THEN /\ pc' = "finally"
          /\ UNCHANGED <<idx, awaiting, calls>>
     ELSE IF trim(statements[idx]) = ""
     THEN /\ idx' = idx + 1
          /\ UNCHANGED <<pc, awaiting, calls>>
     ELSE LET sqliteStatement == convertMySQLToSQLite(statements[idx])
          IN /\ calls' = Append(calls, NewCall(executor, sqliteStatement \o ";", "loop", idx))
             /\ awaiting' = Len(calls) + 1
             /\ pc' = "loopAwait"
             /\ UNCHANGED idx
  /\ UNCHANGED <<dump, sqlContent, executor, lastIndex, tablesCreated, creating, statements,
                 thrown, warnings, outcome, outcomeError, handles, db>>
  /\ UNCHANGED <<toolVars, convVars, schemaVars, sessionVars, splitVars>>

(* a variant whose catch throws the error again *)
LoopResumeRethrow ==
  /\ pc = "loopAwait"
  /\ Settled(awaiting)
  /\ IF calls[awaiting].status = "rejected"
     THEN thrown' = calls[awaiting].error /\ pc' = "catch" /\ UNCHANGED idx
     ELSE idx' = idx + 1 /\ pc' = "loop" /\ UNCHANGED thrown
  /\ UNCHANGED <<dump, sqlContent, executor, lastIndex, tablesCreated, creating, statements,
                 awaiting, warnings, outcome, outcomeError>>
  /\ UNCHANGED storeVars
  /\ UNCHANGED <<toolVars, convVars, schemaVars, sessionVars, splitVars>>

(* lines 118-123: after the await; a failure is logged and the loop goes on *)
LoopResume ==
  /\ pc = "loopAwait"
  /\ Settled(awaiting)
  /\ warnings' = IF calls[awaiting].status = "rejected" THEN Append(warnings, idx) ELSE warnings
  /\ idx' = idx + 1
  /\ pc' = "loop"
  /\ UNCHANGED <<dump, sqlContent, executor, lastIndex, tablesCreated, creating, statements,
                 awaiting, thrown, outcome, outcomeError>>
  /\ UNCHANGED storeVars
  /\ UNCHANGED <<toolVars, convVars, schemaVars, sessionVars, splitVars>>

(* a variant without the finally block *)
CatchWithoutFinally ==
  /\ pc = "catch"
  /\ Reject(thrown)
  /\ UNCHANGED <<dump, sqlContent, executor, lastIndex, tablesCreated, creating, statements,
                 idx, awaiting, thrown, warnings>>
  /\ UNCHANGED storeVars
  /\ UNCHANGED <<toolVars, convVars, schemaVars, sessionVars, splitVars>>

(* lines 127-129: the error is logged and thrown again *)
Catch ==
  /\ pc = "catch"
  /\ pc' = "finally"
  /\ UNCHANGED <<dump, sqlContent, executor, lastIndex, tablesCreated, creating, statements,
                 idx, awaiting, thrown, warnings, outcome, outcomeError>>
  /\ UNCHANGED storeVars
  /\ UNCHANGED <<toolVars, convVars, schemaVars, sessionVars, splitVars>>

(* lines 130-132: executor.close() is called *)
Finally ==
  /\ pc = "finally"
  /\ handles' = CloseCall(executor)
  /\ pc' = "closeAwait"
  /\ UNCHANGED <<dump, sqlContent, executor, lastIndex, tablesCreated, creating, statements,
                 idx, awaiting, thrown, warnings, outcome, outcomeError, calls, db>>
  /\ UNCHANGED <<toolVars, convVars, schemaVars, sessionVars, splitVars>>

(* line 131 after the await: an error of close() replaces the one thrown *)
CloseResume ==
  /\ pc = "closeAwait"
  /\ handles[executor].closeStatus \in {"resolved", "rejected"}
  /\ IF handles[executor].closeStatus = "rejected" THEN Reject(handles[executor].closeError)
     ELSE IF thrown # NoError THEN Reject(thrown)
     ELSE outcome' = "resolved" /\ pc' = "done" /\ UNCHANGED outcomeError
  /\ UNCHANGED <<dump, sqlContent, executor, lastIndex, tablesCreated, creating, statements,
                 idx, awaiting, thrown, warnings>>
  /\ UNCHANGED storeVars
  /\ UNCHANGED <<toolVars, convVars, schemaVars, sessionVars, splitVars>>

----------------------------------------------------------------------------
(* The execute_sql_query tool of the chat agent                            *)
(* (src/lib/chat-agent.ts:29-49): each call creates an executor, runs the  *)
(* input through executeQuery, closes the executor and returns a text.     *)

(* The texts handed to the tool. *)
Queries ==
  { "",
    "SELECT * FROM t",
    "  select name from t",
    "\n\tSelect 1",
    "WITH x AS (SELECT 1) SELECT 1",
    "pragma table_info(t)",
    "-- rows\nSELECT * FROM t",
    "(SELECT 1)",
    "EXPLAIN SELECT 1",
    "INSERT INTO t(id, name) VALUES (2, 'b')",
    "SELECT * FROM missing" }

(* The databases an upload may have left. *)
UploadedDatabases == {{}, {<<"t", 0>>}, {<<"t", 1>>}}

ToolIdle == toolPc = "idle" /\ toolExecutor = 0 /\ toolAwaiting = 0 /\ toolReturns = <<>>

(* line 40-42: the text returned on success *)
ToolSuccess(results) == [ok |-> TRUE, rows |-> Len(results), results |-> results]

(* line 44-46: the text returned from the catch block *)
ToolFailure(message) == [ok |-> FALSE, rows |-> 0, results |-> <<message>>]

(* lines 34-37: createSQLExecutor and executeQuery(input), up to the await *)
ToolInvoke ==
  /\ toolPc = "idle"
  /\ Len(toolReturns) < MaxToolCalls
  /\ \E input \in Queries, o \in OpenOutcomes :
       IF o = "throws"
       THEN /\ toolReturns' = Append(toolReturns, ToolFailure(CannotOpen))
            /\ UNCHANGED <<toolPc, toolExecutor, toolAwaiting, handles, calls>>
       ELSE /\ handles' = Append(handles, NewHandle(o))
            /\ toolExecutor' = Len(handles) + 1
            /\ calls' = Append(calls, NewCall(Len(handles) + 1, input, "tool", Len(toolReturns) + 1))
            /\ toolAwaiting' = Len(calls) + 1
            /\ toolPc' = "query"
            /\ UNCHANGED toolReturns
  /\ UNCHANGED db
  /\ UNCHANGED driverVars
  /\ UNCHANGED <<convVars, schemaVars, sessionVars, splitVars>>

(* lines 37-38 and 43-46: a failed query goes to the catch block; after a  *)
(* successful one close() is called.                                       *)
ToolAfterQuery ==
  /\ toolPc = "query"
  /\ Settled(toolAwaiting)
  /\ IF calls[toolAwaiting].status = "rejected"
     THEN /\ toolReturns' = Append(toolReturns, ToolFailure(calls[toolAwaiting].error))
          /\ toolPc' = "idle"
          /\ UNCHANGED handles
     ELSE /\ handles' = CloseCall(toolExecutor)
          /\ toolPc' = "close"
          /\ UNCHANGED toolReturns
  /\ UNCHANGED <<toolExecutor, toolAwaiting, calls, db>>
  /\ UNCHANGED driverVars
  /\ UNCHANGED <<convVars, schemaVars, sessionVars, splitVars>>

(* lines 38-46: after close() *)
ToolAfterClose ==
  /\ toolPc = "close"
  /\ handles[toolExecutor].closeStatus \in {"resolved", "rejected"}
  /\ toolReturns' = Append(toolReturns,
       IF handles[toolExecutor].closeStatus = "rejected"
       THEN ToolFailure(handles[toolExecutor].closeError)
       ELSE ToolSuccess(calls[toolAwaiting].result))
  /\ toolPc' = "idle"
  /\ UNCHANGED <<toolExecutor, toolAwaiting>>
  /\ UNCHANGED storeVars
  /\ UNCHANGED driverVars
  /\ UNCHANGED <<convVars, schemaVars, sessionVars, splitVars>>

----------------------------------------------------------------------------
(* convertMySQLToSQLite applied to a statement, and to its own result.     *)

(* CREATE TABLE statements of a MySQL dump whose first column is a quoted  *)
(* integer column declared NOT NULL AUTO_INCREMENT, followed by at most    *)
(* one other column and by a table-level PRIMARY KEY constraint.           *)
IdDeclarations ==
  { "int(11) NOT NULL AUTO_INCREMENT",
    "INTEGER NOT NULL AUTO_INCREMENT",
    "int NOT NULL AUTO_INCREMENT",
    "bigint(20) NOT NULL AUTO_INCREMENT",
    "int(10) unsigned NOT NULL AUTO_INCREMENT" }

OtherColumns ==
  { "",
    "  " \o BQ \o "name" \o BQ \o " varchar(255) DEFAULT NULL,\n",
    "  " \o BQ \o "seen" \o BQ \o " datetime NOT NULL,\n" }

PrimaryKeyConstraints ==
  { "  PRIMARY KEY (" \o BQ \o "id" \o BQ \o ")\n",
    "  primary key(" \o BQ \o "id" \o BQ \o "),\n" }

TableOptions ==
  { "",
    " ENGINE=InnoDB AUTO_INCREMENT=5 DEFAULT CHARSET=utf8",
    " ENGINE=MyISAM  DEFAULT  CHARSET=latin1" }

AutoIncTable(decl, col, pk, opt) ==
  "CREATE TABLE " \o BQ \o "users" \o BQ \o " (\n  " \o BQ \o "id" \o BQ \o " " \o decl \o ",\n"
    \o col \o pk \o ")" \o opt

AutoIncTables ==
  { AutoIncTable(decl, col, pk, opt) :
      decl \in IdDeclarations, col \in OtherColumns, pk \in PrimaryKeyConstraints,
      opt \in TableOptions }

(* The statements of the catalog, and other statements of dumps. *)
OtherStatements ==
  { Catalog[k].text : k \in 1..Len(Catalog) } \cup
  { "",
    "INSERT INTO notes (id, body) VALUES (1, 'Some text at int(1) datetime')",
    "CREATE TABLE f (a tinyint(1), b char(2), c TIMESTAMP, d text,\n)",
    BQ \o "id" \o BQ \o " INTEGER PRIMARY KEY AUTO_INCREMENT, PRIMARY KEY (" \o BQ \o "id" \o BQ \o ")" }

(* The type spellings the normalizer lists (lines 226-232), in several    *)
(* letter cases, each with the type of the reduced vocabulary it stands    *)
(* for, and a CREATE TABLE with one column of that type.                   *)
TypeSpellings ==
  { <<"int(11)", "INTEGER">>, <<"INT(4)", "INTEGER">>,
    <<"tinyint(1)", "INTEGER">>, <<"TINYINT(4)", "INTEGER">>,
    <<"varchar(255)", "TEXT">>, <<"VarChar(20)", "TEXT">>,
    <<"char(2)", "TEXT">>, <<"CHAR(36)", "TEXT">>,
    <<"text", "TEXT">>, <<"Text", "TEXT">>,
    <<"datetime", "TEXT">>, <<"DATETIME", "TEXT">>,
    <<"timestamp", "TEXT">>, <<"TimeStamp", "TEXT">> }

TypedColumnTable(type) == "CREATE TABLE f (c " \o type \o " NOT NULL)"

TypedColumnTables == {TypedColumnTable(r[1]) : r \in TypeSpellings}

ConvInputs == AutoIncTables \cup OtherStatements \cup TypedColumnTables

ConvIdle == convPc = "idle" /\ convIn = "" /\ convOnce = "" /\ convTwice = ""

ConvertOnce ==
  /\ convPc = "ready"
  /\ convOnce' = convertMySQLToSQLite(convIn)
  /\ convPc' = "once"
  /\ UNCHANGED <<convIn, convTwice>>
  /\ UNCHANGED <<storeVars, driverVars, toolVars, schemaVars, sessionVars, splitVars>>

ConvertTwice ==
  /\ convPc = "once"
  /\ convTwice' = convertMySQLToSQLite(convOnce)
  /\ convPc' = "twice"
  /\ UNCHANGED <<convIn, convOnce>>
  /\ UNCHANGED <<storeVars, driverVars, toolVars, schemaVars, sessionVars, splitVars>>

----------------------------------------------------------------------------
(* Runs of extractDatabaseSchema on a dump file.  A dump is described as a *)
(* sequence of statements; the file holds their texts.                     *)

(* A column declaration <name> <type> <constraints> of a table body, and a *)
(* structural constraint of a table body.                                  *)
Declared(name, quote, type, constraints) ==
  [name |-> name, type |-> type, constraints |-> constraints,
   text |-> quote \o name \o quote \o " " \o type
              \o (IF constraints = "" THEN "" ELSE " " \o constraints)]

Col(name, type, constraints) == Declared(name, "", type, constraints)

ColQ(name, type, constraints) == Declared(name, BQ, type, constraints)

Struct(text) == [name |-> "", type |-> "", constraints |-> "", text |-> text]

idCol == Col("id", "INT", "PRIMARY KEY")
nameCol == ColQ("name", "VARCHAR(50)", "NOT NULL")
priceCol == Col("price", "DECIMAL(10,2)", "NOT NULL")
totalCol == Col("total", "REAL", "")
noteCol == Col("note", "text", "not null default ''")
userRef == Col("user_id", "INT", "NOT NULL REFERENCES users(id)")
ownerRef == ColQ("owner", "INTEGER", "references " \o BQ \o "users" \o BQ \o " ( " \o BQ \o "id" \o BQ \o " )")
itemRef == Col("item_id", "INT", "REFERENCES items (id) ON DELETE CASCADE")
keyCodeCol == Col("KEY_CODE", "VARCHAR(8)", "")

StructuralConstraints ==
  << Struct("PRIMARY KEY (id)"),
     Struct("FOREIGN KEY (user_id) REFERENCES users(id)"),
     Struct("UNIQUE (name)"),
     Struct("INDEX idx_total (total)"),
     Struct("KEY k_total (total)"),
     Struct("CONSTRAINT fk_user FOREIGN KEY (user_id) REFERENCES users(id)"),
     Struct("primary key (id)") >>

(* The statements of a dump. *)
TableBody(segments) ==
  "\n  " \o join([k \in 1..Len(segments) |-> segments[k].text], ",\n  ") \o "\n"

TableStmt(name, segments, options) ==
  [kind |-> "table", name |-> name, segments |-> segments, options |-> options,
   columns |-> <<>>, row |-> <<>>,
   text |-> "CREATE TABLE " \o name \o " (" \o TableBody(segments) \o ")" \o options \o ";"]

IndexStmt(unique, name, table) ==
  [kind |-> "index", name |-> name, segments |-> <<>>, options |-> unique,
   columns |-> <<>>, row |-> <<table>>,
   text |-> "CREATE " \o unique \o "INDEX " \o name \o " ON " \o table \o " (id);"]

InsertStmt(name, quote, columns, row) ==
  [kind |-> "insert", name |-> name, segments |-> <<>>, options |-> quote,
   columns |-> columns, row |-> row,
   text |-> "INSERT INTO " \o name \o " ("
              \o join([k \in 1..Len(columns) |-> quote \o columns[k] \o quote], ", ")
              \o ") VALUES (" \o join(row, ", ") \o ");"]

Engine == " ENGINE=InnoDB"

(* One table with a body of column declarations and constraints. *)
BodyDumps ==
  { <<TableStmt("items", <<idCol, nameCol, totalCol>>, "")>>,
    <<TableStmt("items", <<idCol, priceCol, totalCol>>, "")>>,
    <<TableStmt("items", <<idCol, noteCol, keyCodeCol>>, "")>>,
    <<TableStmt("items", <<idCol, ownerRef, noteCol>>, "")>>,
    <<TableStmt("items", <<userRef, totalCol, itemRef>>, "")>> }
  \cup { <<TableStmt("items", <<nameCol, StructuralConstraints[k], userRef>>, "")>> :
           k \in 1..Len(StructuralConstraints) }

(* Several tables, with and without table options, and indexes. *)
TableDumps ==
  { <<TableStmt("users", <<idCol, nameCol>>, a), TableStmt("orders", <<idCol, userRef>>, b)>> :
      a \in {"", Engine}, b \in {"", Engine} }
  \cup
  { <<TableStmt("users", <<idCol>>, Engine)>>,
    <<TableStmt("users", <<idCol>>, ""), TableStmt("items", <<idCol, ownerRef>>, ""),
      TableStmt("orders", <<userRef, itemRef, totalCol>>, "")>> }

IndexDumps ==
  { <<TableStmt("orders", <<idCol, totalCol>>, ""), TableStmt(other, <<idCol>>, ""),
      IndexStmt(unique, "idx_a", "orders"), IndexStmt("", "idx_b", other)>> :
      unique \in {"", "UNIQUE "}, other \in {"orders_archive", "users"} }

(* Dumps with no CREATE TABLE. *)
InsertDumps ==
  { <<InsertStmt("orders", quote, <<"order_id", "total", "active">>, <<"1", "19.99", "1">>)>> :
      quote \in {"", BQ} }
  \cup
  { <<InsertStmt("items", BQ, <<"item_id", "price", "name">>, <<"7", "2.50", "'pen'">>)>>,
    <<InsertStmt("tags", BQ, <<"label", "tag_id", "rank">>, <<"'new'", "'t1'", "3">>)>>,
    <<InsertStmt("items", BQ, <<"item_id", "name">>, <<"7", "'pen'">>),
      InsertStmt("tags", BQ, <<"label">>, <<"'new'">>),
      InsertStmt("items", BQ, <<"item_id", "name", "price">>, <<"8", "'ink'", "1.25">>)>>,
    <<InsertStmt("orders", BQ, <<"code", "qty">>, <<"'a'", "2.5">>),
      InsertStmt("order", BQ, <<"code", "qty">>, <<"10", "'x'">>)>>,
    <<InsertStmt("order", BQ, <<"code", "qty">>, <<"10", "'x'">>),
      InsertStmt("orders", BQ, <<"code", "qty">>, <<"'a'", "2.5">>)>> }

SchemaDumps == BodyDumps \cup TableDumps \cup IndexDumps \cup InsertDumps

DumpText(d) == join([k \in 1..Len(d) |-> d[k].text], "\n")

NoSchema == <<>>

SchemaIdle ==
  /\ schDump = <<>> /\ schPc = "idle" /\ schContent = "" /\ schTables = <<>>
  /\ schRelationships = <<>> /\ schFile = NoSchema

(* part_002:205 *)
SchemaReadFile ==
  /\ schPc = "start"
  /\ schContent' = DumpText(schDump)
  /\ schPc' = "read"
  /\ UNCHANGED <<schDump, schTables, schRelationships, schFile>>
  /\ UNCHANGED <<storeVars, driverVars, toolVars, convVars, sessionVars, splitVars>>

(* part_002:207-217 *)
SchemaExtractTables ==
  /\ schPc = "read"
  /\ schTables' = SchemaTables(schContent)
  /\ schPc' = "tables"
  /\ UNCHANGED <<schDump, schContent, schRelationships, schFile>>
  /\ UNCHANGED <<storeVars, driverVars, toolVars, convVars, sessionVars, splitVars>>

(* part_002:219 *)
SchemaExtractRelationships ==
  /\ schPc = "tables"
  /\ schRelationships' = extractRelationships(schTables)
  /\ schPc' = "relationships"
  /\ UNCHANGED <<schDump, schContent, schTables, schFile>>
  /\ UNCHANGED <<storeVars, driverVars, toolVars, convVars, sessionVars, splitVars>>

(* part_002:221-235 *)
SchemaWriteFile ==
  /\ schPc = "relationships"
  /\ schFile' = [tables |-> schTables, relationships |-> schRelationships,
                 totalTables |-> Len(schTables)]
  /\ schPc' = "returned"
  /\ UNCHANGED <<schDump, schContent, schTables, schRelationships>>
  /\ UNCHANGED <<storeVars, driverVars, toolVars, convVars, sessionVars, splitVars>>

----------------------------------------------------------------------------
(* The data directory of the server: the upload endpoint (part_001:8-65), *)
(* the schema file (part_002:204-236 and 429-438) and the database file   *)
(* (src/lib/sql-executor.ts:10-13) of each session.                        *)

MaxUploads == 2

(* process.cwd() *)
Cwd == "/app"

(* The session tokens and file names requests come with, and the dumps    *)
(* the files hold: a table with a row, rows of a table the dump does not  *)
(* create, and further rows of the first table.                           *)
Tokens == {"s1", "xa.sql", "x/a.sql"}
FileNames == {"a.sql", "notes.txt"}
SessionDumps == {<<1, 3>>, <<4>>, <<3>>}

(* String.prototype.replace with a string pattern: its first occurrence *)
replace(s, pattern, replacement) ==
  LET places == {i \in 1..Len(s) : startsWithAt(s, pattern, i)}
  IN IF places = {} THEN s
     ELSE SubSeq(s, 1, Min(places) - 1) \o replacement
            \o SubSeq(s, Min(places) + Len(pattern), Len(s))

endsWith(s, p) == Len(p) <= Len(s) /\ SubSeq(s, Len(s) - Len(p) + 1, Len(s)) = p

(* path.join of absolute-path segments: joined by "/" and normalized, so  *)
(* that empty segments go away                                             *)
pathJoin(parts) ==
  "/" \o join(SelectSeq(split(join(parts, "/"), "/"), LAMBDA seg : seg # ""), "/")

(* the directory a path lies in *)
Dirname(path) ==
  LET cuts == {i \in 2..Len(path) : Ch(path, i) = "/"}
  IN IF cuts = {} THEN "/" ELSE SubSeq(path, 1, Max(cuts) - 1)

(* mkdir(path, { recursive: true }) makes the directory and those above it *)
WithDirectories(path) ==
  {path} \cup {SubSeq(path, 1, i - 1) : i \in {j \in 2..Len(path) : Ch(path, j) = "/"}}

EmptyMap == [x \in {} |-> x]

Put(map, key, value) == [x \in DOMAIN map \cup {key} |-> IF x = key THEN value ELSE map[x]]

(* JSON.stringify writes an object as the sequence of its members and     *)
(* leaves out a member whose value is undefined; JSON.parse gives back an *)
(* object with the members written.                                        *)
Undefined == <<>>

Member(key, value) == <<key, value>>

Has(object, key) == \E k \in 1..Len(object) : object[k][1] = key

Get(object, key) == object[CHOOSE k \in 1..Len(object) : object[k][1] = key][2]

stringifyColumn(c) ==
  << Member("name", c.name), Member("type", c.type), Member("nullable", c.nullable),
     Member("primaryKey", c.primaryKey) >>
    \o (IF c.foreignKey = Undefined THEN <<>>
        ELSE << Member("foreignKey", << Member("table", c.foreignKey[1]),
                                        Member("column", c.foreignKey[2]) >>) >>)

stringifyTable(t) ==
  << Member("name", t.name),
     Member("columns", [k \in 1..Len(t.columns) |-> stringifyColumn(t.columns[k])]),
     Member("indexes", t.indexes) >>

stringifyRelationship(r) ==
  << Member("from", << Member("table", r.from[1]), Member("column", r.from[2]) >>),
     Member("to", << Member("table", r.to[1]), Member("column", r.to[2]) >>),
     Member("type", r.type) >>

stringify(schema) ==
  << Member("tables", [k \in 1..Len(schema.tables) |-> stringifyTable(schema.tables[k])]),
     Member("relationships",
            [k \in 1..Len(schema.relationships) |-> stringifyRelationship(schema.relationships[k])]),
     Member("metadata", << Member("extractedAt", schema.metadata.extractedAt),
                           Member("fileName", schema.metadata.fileName),
                           Member("totalTables", schema.metadata.totalTables) >>) >>

(* a member that was not written reads as undefined; the text of the      *)
(* declaration a column came from is no member of the object              *)
parseColumn(o) ==
  [name |-> Get(o, "name"), type |-> Get(o, "type"), nullable |-> Get(o, "nullable"),
   primaryKey |-> Get(o, "primaryKey"),
   foreignKey |-> IF Has(o, "foreignKey")
                  THEN <<Get(Get(o, "foreignKey"), "table"), Get(Get(o, "foreignKey"), "column")>>
                  ELSE Undefined,
   trailing |-> ""]

parseTable(o) ==
  [name |-> Get(o, "name"),
   columns |-> [k \in 1..Len(Get(o, "columns")) |-> parseColumn(Get(o, "columns")[k])],
   indexes |-> Get(o, "indexes")]

parseRelationship(o) ==
  [from |-> <<Get(Get(o, "from"), "table"), Get(Get(o, "from"), "column")>>,
   to |-> <<Get(Get(o, "to"), "table"), Get(Get(o, "to"), "column")>>,
   type |-> Get(o, "type")]

parse(text) ==
  [tables |-> [k \in 1..Len(Get(text, "tables")) |-> parseTable(Get(text, "tables")[k])],
   relationships |-> [k \in 1..Len(Get(text, "relationships")) |->
                        parseRelationship(Get(text, "relationships")[k])],
   metadata |-> [extractedAt |-> Get(Get(text, "metadata"), "extractedAt"),
                 fileName |-> Get(Get(text, "metadata"), "fileName"),
                 totalTables |-> Get(Get(text, "metadata"), "totalTables")]]

(* part_002:204-230: the schema of a file; extractedAt is the number of   *)
(* the request                                                             *)
SchemaObject(content, fileName, now) ==
  LET tables == SchemaTables(content) IN
  [tables |-> tables,
   relationships |-> extractRelationships(tables),
   metadata |-> [extractedAt |-> now, fileName |-> fileName, totalTables |-> Len(tables)]]

(* part_002:232: where extractDatabaseSchema writes *)
SchemaPathOfFile(sqlFilePath, fileName) ==
  pathJoin(<<replace(sqlFilePath, fileName, ""), "schema.json">>)

(* part_002:431: where loadDatabaseSchema reads *)
SchemaPathOfSession(sessionToken) == pathJoin(<<Cwd, "data", sessionToken, "schema.json">>)

(* src/lib/sql-executor.ts:11 *)
DbPath(sessionToken) == pathJoin(<<Cwd, "data", sessionToken, "database.db">>)

(* null: no schema has extractedAt 0 *)
Null == [tables |-> <<>>, relationships |-> <<>>,
         metadata |-> [extractedAt |-> 0, fileName |-> "", totalTables |-> 0]]

(* part_002:429-438: a file that cannot be read gives null *)
LoadFrom(files, sessionToken) ==
  IF SchemaPathOfSession(sessionToken) \in DOMAIN files
  THEN parse(files[SchemaPathOfSession(sessionToken)])
  ELSE Null

loadDatabaseSchema(sessionToken) == LoadFrom(schemaFiles, sessionToken)

(* What the store understands each text of a sequence to be. *)
ParsedAll(texts) == [k \in 1..Len(texts) |-> StoreParse(texts[k])]

(* The database the store is left with by statements k and on, each       *)
(* answered by its text and the tables there are.                         *)
RECURSIVE AfterParsed(_, _, _)
AfterParsed(d, parsed, k) ==
  IF k > Len(parsed) THEN d
  ELSE AfterParsed(ReplyTo(parsed[k], "open", d, FALSE).db, parsed, k + 1)

(* src/lib/sql-executor.ts:141-165: the CREATE TABLE statements the while *)
(* loop generates from lastIndex on                                        *)
RECURSIVE CreateStatementsFrom(_, _, _)
CreateStatementsFrom(content, from, created) ==
  LET m == InsertExec(content, from) IN
  IF ~m.found THEN <<>>
  ELSE IF m.tableName \in created THEN CreateStatementsFrom(content, m.lastIndex, created)
  ELSE <<generateCreateTableSQL(m.tableName, ParseColumns(m.columnsStr),
                                getSampleDataForTable(content, m.tableName))>>
         \o CreateStatementsFrom(content, m.lastIndex, created \cup {m.tableName})

(* src/lib/sql-executor.ts:135-172: createTablesFromInserts stops at the  *)
(* first statement the store rejects and throws its error                 *)
AfterInference(d, parsed) ==
  LET rejected == {k \in 1..Len(parsed) :
                     ReplyTo(parsed[k], "open", AfterParsed(d, SubSeq(parsed, 1, k - 1), 1),
                             FALSE).err # NoError}
  IN IF rejected = {} THEN [db |-> AfterParsed(d, parsed, 1), error |-> NoError]
     ELSE [db |-> AfterParsed(d, SubSeq(parsed, 1, Min(rejected) - 1), 1),
           error |-> ReplyTo(parsed[Min(rejected)], "open",
                             AfterParsed(d, SubSeq(parsed, 1, Min(rejected) - 1), 1), FALSE).err]

(* src/lib/sql-executor.ts:113-118: the texts the for loop executes *)
LoopStatements(stmts) ==
  LET kept == SelectSeq(stmts, LAMBDA st : trim(st) # "")
  IN [k \in 1..Len(kept) |-> convertMySQLToSQLite(kept[k]) \o ";"]

(* src/lib/sql-executor.ts:80-126: the try block of initializeDatabase on *)
(* a database file holding d: the database it leaves and the error it     *)
(* throws; a statement of the for loop that the store rejects is logged   *)
(* and passed over                                                         *)
RunOn(d, creates, loop) ==
  IF AfterInference(d, creates).error # NoError THEN AfterInference(d, creates)
  ELSE [db |-> AfterParsed(AfterInference(d, creates).db, loop, 1), error |-> NoError]

DriverRun(d, content) ==
  RunOn(d,
        IF ~hasCreateStatements(content) THEN ParsedAll(CreateStatementsFrom(content, 1, {}))
        ELSE <<>>,
        ParsedAll(LoopStatements(SplitStatements(content))))

SessionIdle ==
  /\ dirs = {Cwd} /\ sqlFiles = EmptyMap /\ schemaFiles = EmptyMap /\ databases = EmptyMap
  /\ postPc = "idle" /\ postToken = "" /\ postName = "" /\ postDump = <<>>
  /\ postSchema = Null /\ response = 0 /\ uploads = 0
  /\ chatPc = "idle" /\ chatToken = "" /\ chatSchema = Null /\ modelCalls = 0

FilePath == pathJoin(<<Cwd, "data", postToken, postName>>)

Respond(status) == response' = status /\ postPc' = "responded"

(* part_001:9-25: the request is read and validated *)
PostReceive ==
  /\ postPc \in {"idle", "responded", "hung"}
  /\ uploads < MaxUploads
  /\ uploads' = uploads + 1
  /\ \E token \in Tokens \cup {""}, name \in FileNames \cup {""}, d \in SessionDumps :
       /\ postToken' = token
       /\ postName' = name
       /\ IF name = "" \/ token = "" \/ ~endsWith(toLowerCase(name), ".sql")
          THEN postDump' = <<>> /\ Respond(400)
          ELSE postDump' = d /\ response' = 0 /\ postPc' = "validated"
  /\ postSchema' = Null
  /\ UNCHANGED <<dirs, sqlFiles, schemaFiles, databases, chatPc, chatToken, chatSchema, modelCalls>>
  /\ UNCHANGED <<storeVars, driverVars, toolVars, convVars, schemaVars, splitVars>>

(* part_001:27-45: the directories are made and the file is written; the  *)
(* catch block of lines 61-64 answers a failure                            *)
PostWriteFile ==
  /\ postPc = "validated"
  /\ dirs' = dirs \cup WithDirectories(Dirname(FilePath))
  /\ IF FilePath \in dirs
     THEN Respond(500) /\ UNCHANGED sqlFiles
     ELSE /\ sqlFiles' = Put(sqlFiles, FilePath, postDump)
          /\ postPc' = "written"
          /\ UNCHANGED response
  /\ UNCHANGED <<schemaFiles, databases, postToken, postName, postDump, postSchema, uploads,
                 chatPc, chatToken, chatSchema, modelCalls>>
  /\ UNCHANGED <<storeVars, driverVars, toolVars, convVars, schemaVars, splitVars>>

(* a variant that adds the tables of the file to those of the schema file *)
PostExtractMerging ==
  /\ postPc = "written"
  /\ \E schema \in {SchemaObject(FileText(sqlFiles[FilePath]), postName, uploads)},
        schemaPath \in {SchemaPathOfFile(FilePath, postName)} :
       IF Dirname(schemaPath) \in dirs /\ schemaPath \notin dirs
       THEN /\ schemaFiles' = Put(schemaFiles, schemaPath,
                 stringify(IF schemaPath \in DOMAIN schemaFiles
                           THEN [schema EXCEPT !.tables = parse(schemaFiles[schemaPath]).tables \o @]
                           ELSE schema))
            /\ postSchema' = schema
            /\ postPc' = "extracted"
            /\ UNCHANGED response
       ELSE /\ Respond(500)
            /\ UNCHANGED <<schemaFiles, postSchema>>
  /\ UNCHANGED <<dirs, sqlFiles, databases, postToken, postName, postDump, uploads,
                 chatPc, chatToken, chatSchema, modelCalls>>
  /\ UNCHANGED <<storeVars, driverVars, toolVars, convVars, schemaVars, splitVars>>

(* part_001:48 and part_002:204-236: extractDatabaseSchema reads the file, *)
(* writes schema.json and returns the schema; writeFile fails when the    *)
(* directory of the path does not exist                                    *)
PostExtract ==
  /\ postPc = "written"
  /\ \E schema \in {SchemaObject(FileText(sqlFiles[FilePath]), postName, uploads)},
        schemaPath \in {SchemaPathOfFile(FilePath, postName)} :
       IF Dirname(schemaPath) \in dirs /\ schemaPath \notin dirs
       THEN /\ schemaFiles' = Put(schemaFiles, schemaPath, stringify(schema))
            /\ postSchema' = schema
            /\ postPc' = "extracted"
            /\ UNCHANGED response
       ELSE /\ Respond(500)
            /\ UNCHANGED <<schemaFiles, postSchema>>
  /\ UNCHANGED <<dirs, sqlFiles, databases, postToken, postName, postDump, uploads,
                 chatPc, chatToken, chatSchema, modelCalls>>
  /\ UNCHANGED <<storeVars, driverVars, toolVars, convVars, schemaVars, splitVars>>

DatabaseAt(path) == IF path \in DOMAIN databases THEN databases[path] ELSE {}

ClosedHandle == [NewHandle("open") EXCEPT !.state = "closed", !.closeCalls = 1,
                                          !.closeStatus = "resolved"]

BusyHandle == [NewHandle("open") EXCEPT !.closeCalls = 1, !.closeStatus = "rejected",
                                        !.closeError = CloseBusy]

(* a variant without the rethrow of a failed close(): the request goes on *)
(* to its success response while the store is still held                  *)
PostInitializeKeepingStore ==
  /\ postPc = "extracted"
  /\ \E o \in OpenOutcomes, closes \in BOOLEAN,
        run \in {DriverRun(DatabaseAt(DbPath(postToken)), FileText(sqlFiles[FilePath]))} :
       CASE o = "throws" -> Respond(500) /\ UNCHANGED <<handles, databases>>
         [] o = "dead" -> /\ handles' = Append(handles, NewHandle("dead"))
                          /\ postPc' = "hung"
                          /\ UNCHANGED <<response, databases>>
         [] o = "open" -> /\ databases' = Put(databases, DbPath(postToken), run.db)
                          /\ handles' = Append(handles, IF closes THEN ClosedHandle ELSE BusyHandle)
                          /\ IF run.error = NoError
                             THEN postPc' = "initialized" /\ UNCHANGED response
                             ELSE Respond(500)
  /\ UNCHANGED <<dirs, sqlFiles, schemaFiles, postToken, postName, postDump, postSchema, uploads,
                 chatPc, chatToken, chatSchema, modelCalls>>
  /\ UNCHANGED <<calls, db>>
  /\ UNCHANGED <<driverVars, toolVars, convVars, schemaVars, splitVars>>

(* part_001:51 and src/lib/sql-executor.ts:76-133: initializeDatabase on  *)
(* the database file of the session, from the opening of the store to the *)
(* settling of close(); a store that answers no call leaves the request   *)
(* without a response                                                      *)
PostInitialize ==
  /\ postPc = "extracted"
  /\ \E o \in OpenOutcomes, closes \in BOOLEAN,
        run \in {DriverRun(DatabaseAt(DbPath(postToken)), FileText(sqlFiles[FilePath]))} :
       CASE o = "throws" -> Respond(500) /\ UNCHANGED <<handles, databases>>
         [] o = "dead" -> /\ handles' = Append(handles, NewHandle("dead"))
                          /\ postPc' = "hung"
                          /\ UNCHANGED <<response, databases>>
         [] o = "open" -> /\ databases' = Put(databases, DbPath(postToken), run.db)
                          /\ handles' = Append(handles, IF closes THEN ClosedHandle ELSE BusyHandle)
                          /\ IF closes /\ run.error = NoError
                             THEN postPc' = "initialized" /\ UNCHANGED response
                             ELSE Respond(500)
  /\ UNCHANGED <<dirs, sqlFiles, schemaFiles, postToken, postName, postDump, postSchema, uploads,
                 chatPc, chatToken, chatSchema, modelCalls>>
  /\ UNCHANGED <<calls, db>>
  /\ UNCHANGED <<driverVars, toolVars, convVars, schemaVars, splitVars>>

(* part_001:53-59 *)
PostRespond ==
  /\ postPc = "initialized"
  /\ Respond(200)
  /\ UNCHANGED <<dirs, sqlFiles, schemaFiles, databases, postToken, postName, postDump,
                 postSchema, uploads, chatPc, chatToken, chatSchema, modelCalls>>
  /\ UNCHANGED <<storeVars, driverVars, toolVars, convVars, schemaVars, splitVars>>

(* a variant that goes on with an empty schema when there is none *)
ChatInitializeWithDefault ==
  /\ chatPc \in {"idle", "returned", "thrown"}
  /\ \E token \in Tokens :
       /\ chatToken' = token
       /\ chatSchema' = loadDatabaseSchema(token)
       /\ chatPc' = "initialized"
  /\ modelCalls' = 0
  /\ UNCHANGED <<dirs, sqlFiles, schemaFiles, databases, postPc, postToken, postName, postDump,
                 postSchema, response, uploads>>
  /\ UNCHANGED <<storeVars, driverVars, toolVars, convVars, schemaVars, splitVars>>

(* src/lib/chat-agent.ts:138-141 and 22-27: chat() of a new agent calls   *)
(* initialize(), which throws when loadDatabaseSchema gives null           *)
ChatInitialize ==
  /\ chatPc \in {"idle", "returned", "thrown"}
  /\ \E token \in Tokens :
       /\ chatToken' = token
       /\ chatSchema' = loadDatabaseSchema(token)
       /\ chatPc' = IF chatSchema' = Null THEN "thrown" ELSE "initialized"
  /\ modelCalls' = 0
  /\ UNCHANGED <<dirs, sqlFiles, schemaFiles, databases, postPc, postToken, postName, postDump,
                 postSchema, response, uploads>>
  /\ UNCHANGED <<storeVars, driverVars, toolVars, convVars, schemaVars, splitVars>>

(* src/lib/chat-agent.ts:143-181: the agent is built and invoked, and its *)
(* output or the apology of the catch block is returned                    *)
ChatInvoke ==
  /\ chatPc = "initialized"
  /\ modelCalls' = modelCalls + 1
  /\ chatPc' = "returned"
  /\ UNCHANGED <<dirs, sqlFiles, schemaFiles, databases, postPc, postToken, postName, postDump,
                 postSchema, response, uploads, chatToken, chatSchema>>
  /\ UNCHANGED <<storeVars, driverVars, toolVars, convVars, schemaVars, splitVars>>

----------------------------------------------------------------------------
(* The statement splitter on the text of a file.                           *)

MaxPieces == 2

(* Stretches of text between two semicolons: blank, comment lines with    *)
(* and without the words CREATE and INSERT, statements, and statements    *)
(* with comment lines before, inside and after them.                      *)
Pieces ==
  { "",
    " \n",
    "\n-- rows of t",
    "-- CREATE TABLE t is above\n-- see INSERT",
    "\nINSERT INTO t(id, name) VALUES (1, 'a')",
    "-- rename\nUPDATE t SET name = 'b'",
    "\n-- old table\nDROP TABLE t",
    "UPDATE t\n  -- every row\n  SET name = 'c'\n-- done",
    "\n  -- the table\nCREATE TABLE t(id INTEGER)",
    "DELETE FROM t -- all" }

SplitInputs == UNION {[1..n -> Pieces] : n \in 1..MaxPieces}

(* the text of the file: each stretch followed by its semicolon *)
SplitText(pieces) == Cat([k \in 1..Len(pieces) |-> pieces[k] \o ";"], 1, Len(pieces))

SplitIdle == splitPc = "idle" /\ splitIn = <<>> /\ splitOut = <<>>

(* lines 94-110 *)
SplitRun ==
  /\ splitPc = "ready"
  /\ splitOut' = SplitStatements(SplitText(splitIn))
  /\ splitPc' = "split"
  /\ UNCHANGED splitIn
  /\ UNCHANGED <<storeVars, driverVars, toolVars, convVars, schemaVars, sessionVars>>

----------------------------------------------------------------------------
(* Specifications.                                                         *)

DriverIdle ==
  /\ dump = <<>> /\ pc = "idle" /\ sqlContent = "" /\ executor = 0 /\ lastIndex = 1
  /\ tablesCreated = {} /\ creating = "" /\ statements = <<>> /\ idx = 1 /\ awaiting = 0
  /\ thrown = NoError /\ warnings = <<>> /\ outcome = "pending" /\ outcomeError = NoError

StoreEmpty == handles = <<>> /\ calls = <<>> /\ db = {}

(* One run of initializeDatabase on a new database file. *)
Init == StoreEmpty /\ DriverInit /\ ToolIdle /\ ConvIdle /\ SchemaIdle /\ SessionIdle /\ SplitIdle

Next ==
  \/ ReadFile \/ Construct \/ EnterTry \/ InferNext \/ InferResume \/ Split
  \/ LoopNext \/ LoopResume \/ Catch \/ Finally \/ CloseResume
  \/ StoreCallback \/ CloseCallback

Spec == Init /\ [][Next]_vars

(* Calls of the execute_sql_query tool on an uploaded database. *)
InitQuery ==
  /\ handles = <<>> /\ calls = <<>> /\ db \in UploadedDatabases
  /\ DriverIdle /\ ToolIdle /\ ConvIdle /\ SchemaIdle /\ SessionIdle /\ SplitIdle

NextQuery ==
  \/ ToolInvoke \/ ToolAfterQuery \/ ToolAfterClose
  \/ StoreCallback \/ CloseCallback

SpecQuery == InitQuery /\ [][NextQuery]_vars

(* The normalizer on one statement. *)
InitConv ==
  /\ StoreEmpty /\ DriverIdle /\ ToolIdle /\ SchemaIdle /\ SessionIdle /\ SplitIdle
  /\ convIn \in ConvInputs /\ convPc = "ready" /\ convOnce = "" /\ convTwice = ""

NextConv == ConvertOnce \/ ConvertTwice

SpecConv == InitConv /\ [][NextConv]_vars

(* extractDatabaseSchema on one dump file. *)
InitSchema ==
  /\ StoreEmpty /\ DriverIdle /\ ToolIdle /\ ConvIdle /\ SessionIdle /\ SplitIdle
  /\ schDump \in SchemaDumps /\ schPc = "start" /\ schContent = "" /\ schTables = <<>>
  /\ schRelationships = <<>> /\ schFile = NoSchema

NextSchema ==
  SchemaReadFile \/ SchemaExtractTables \/ SchemaExtractRelationships \/ SchemaWriteFile

SpecSchema == InitSchema /\ [][NextSchema]_vars

(* Upload requests and chats on the data directory of a new server. *)
InitSession ==
  /\ StoreEmpty /\ DriverIdle /\ ToolIdle /\ ConvIdle /\ SchemaIdle /\ SessionIdle /\ SplitIdle

NextSession ==
  \/ PostReceive \/ PostWriteFile \/ PostExtract \/ PostInitialize \/ PostRespond
  \/ ChatInitialize \/ ChatInvoke

SpecSession == InitSession /\ [][NextSession]_vars

(* The splitter on one text. *)
InitSplit ==
  /\ StoreEmpty /\ DriverIdle /\ ToolIdle /\ ConvIdle /\ SchemaIdle /\ SessionIdle
  /\ splitIn \in SplitInputs /\ splitPc = "ready" /\ splitOut = <<>>

NextSplit == SplitRun

SpecSplit == InitSplit /\ [][NextSplit]_vars

----------------------------------------------------------------------------
(* Properties of a run of initializeDatabase (Spec).                       *)

CallsFrom(src) == {c \in 1..Len(calls) : calls[c].src = src}

InFlight == {c \in 1..Len(calls) : calls[c].status = "pending"}

(* What the statements of the dump are, by the catalog. *)
HasCreate(d) == \E k \in 1..Len(d) : Catalog[d[k]].kind \in {"create", "malformed"}

InsertTables(d) == {Catalog[d[k]].table : k \in {j \in 1..Len(d) : Catalog[d[j]].kind = "insert"}}

(* What the main loop hands to executeQuery for each statement of the     *)
(* catalog (lines 117-118).                                                *)
LoopQueries == {<<k, convertMySQLToSQLite(Catalog[k].text) \o ";">> : k \in 1..Len(Catalog)}

IssuedInLoop(j) == \E c \in CallsFrom("loop") : calls[c].item = j

(* C1: a statement the store rejects in the main loop is only logged: the  *)
(* run raises no error of a statement, and once it is over every statement *)
(* of the dump has been issued, the ones after the rejected one included.  *)
(* The dump [CREATE TABLE t, malformed CREATE TABLE, INSERT INTO t], with   *)
(* no fault of the store itself, leaves table t with exactly one row.      *)
C1_LoopFailureIsolated ==
  /\ \A c \in CallsFrom("loop") :
       calls[c].status = "rejected" =>
         /\ thrown = NoError
         /\ pc # "catch"
         /\ outcome = "rejected" => outcomeError # calls[c].error
         /\ pc = "done" => \A j \in 1..Len(dump) : IssuedInLoop(j)
  /\ ( /\ dump = <<1, 2, 3>>
       /\ pc = "done"
       /\ Len(calls) = 3
       /\ \A c \in 1..Len(calls) : calls[c].reply.err # StoreFault )
     => db = {<<"t", 1>>} /\ warnings = <<2>>

C1_Witness ==
  /\ dump = <<1, 2, 3>>
  /\ pc = "done"
  /\ outcome = "resolved"
  /\ calls[2].status = "rejected"
  /\ calls[3].status = "resolved"
  /\ db = {<<"t", 1>>}

(* C2: close() is called at most once on a handle, never before the run    *)
(* has left the try block, and exactly once by the time the run is over,   *)
(* whether it resolves or rejects; no statement is issued on a handle      *)
(* after close() was called on it.                                         *)
C2_ClosedOnceOnEveryExit ==
  /\ \A h \in 1..Len(handles) :
       /\ handles[h].closeCalls <= 1
       /\ handles[h].closeCalls = 1 => pc \in {"closeAwait", "done"}
       /\ handles[h].closeStatus = "resolved" => handles[h].state = "closed"
  /\ (pc = "done" /\ executor # 0) => handles[executor].closeCalls = 1
  /\ \A c \in 1..Len(calls) : ~calls[c].late

C2_Witness ==
  /\ pc = "done"
  /\ outcome = "rejected"
  /\ thrown # NoError
  /\ executor # 0
  /\ handles[executor].closeCalls = 1
  /\ handles[executor].state = "closed"

(* C3: at most one statement of the run is in flight, and the main loop    *)
(* issues the statements in the order of the dump, each after the store    *)
(* has answered the one before: its calls are, in order, the converted     *)
(* statements 1, 2, ... of the dump.                                       *)
C3_OneAtATimeInOrder ==
  /\ Cardinality(InFlight) <= 1
  /\ \A c \in InFlight : c = Len(calls)
  /\ {calls[c].item : c \in CallsFrom("loop")} = 1..Cardinality(CallsFrom("loop"))
  /\ \A c1, c2 \in CallsFrom("loop") : c1 < c2 => calls[c1].item < calls[c2].item
  /\ \A c \in CallsFrom("loop") : <<dump[calls[c].item], calls[c].query>> \in LoopQueries

C3_Witness ==
  /\ Len(calls) = 3
  /\ CallsFrom("loop") = {1, 2, 3}
  /\ calls[1].status # "pending"
  /\ calls[2].status # "pending"
  /\ calls[3].status = "pending"

(* C4: for a dump without CREATE TABLE, by the time the first statement of *)
(* the dump is issued one CREATE TABLE IF NOT EXISTS per distinct inserted *)
(* table has been issued and has completed; for a dump with a CREATE TABLE *)
(* nothing is synthesized.                                                 *)
C4_SynthesizedFirst ==
  /\ HasCreate(dump) => CallsFrom("infer") = {}
  /\ \A c \in CallsFrom("infer") :
       /\ startsWith(calls[c].query, "CREATE TABLE IF NOT EXISTS " \o BQ \o calls[c].item \o BQ \o " (")
       /\ \A c2 \in CallsFrom("infer") : calls[c2].item = calls[c].item => c2 = c
  /\ (~HasCreate(dump) /\ CallsFrom("loop") # {}) =>
       /\ {calls[c].item : c \in CallsFrom("infer")} = InsertTables(dump)
       /\ \A c \in CallsFrom("infer") :
            /\ calls[c].status = "resolved"
            /\ \A c2 \in CallsFrom("loop") : c < c2

C4_Witness ==
  /\ ~HasCreate(dump)
  /\ InsertTables(dump) = {"t", "u"}
  /\ Cardinality(CallsFrom("infer")) = 2
  /\ CallsFrom("loop") # {}

(* C5: in a dump without CREATE TABLE, a synthesized CREATE TABLE the      *)
(* store rejects does not abort the run: the run does not reject with that *)
(* error and, once it is over, every statement of the dump has been issued.*)
C5_SynthesizedFailureIsolated ==
  \A c \in CallsFrom("infer") :
    (calls[c].status = "rejected" /\ pc = "done") =>
      /\ ~(outcome = "rejected" /\ outcomeError = calls[c].error)
      /\ \A j \in 1..Len(dump) : IssuedInLoop(j)

(* At an await, the step that ends it: the store answers, or the run     *)
(* resumes.                                                                *)
AwaitEnds == ENABLED (StoreCallback \/ CloseCallback \/ InferResume \/ LoopResume \/ CloseResume)

(* C6: when the store cannot open the database file, or cannot close it,   *)
(* initializeDatabase rejects: the run neither ends otherwise nor waits at *)
(* an await that nothing ends.                                             *)
C6_StoreUnavailableRejects ==
  (executor # 0 /\ (handles[executor].state = "dead" \/ handles[executor].closeStatus = "rejected"))
    => \/ outcome = "rejected"
       \/ /\ pc # "done"
          /\ pc \in {"inferAwait", "loopAwait", "closeAwait"} => AwaitEnds

----------------------------------------------------------------------------
(* Properties of executeQuery (SpecQuery).                                 *)

(* s has the keyword, in upper or lower case, right after its leading      *)
(* white space.                                                            *)
BeginsWith(s, keyword) ==
  \E i \in 1..Len(s) + 1 :
    /\ \A j \in 1..(i - 1) : Ch(s, j) \in SpaceSet
    /\ i + Len(keyword) - 1 <= Len(s)
    /\ \A j \in 1..Len(keyword) : UpChar(Ch(s, i + j - 1)) = Ch(keyword, j)

ReadKeywords == {"SELECT", "WITH", "PRAGMA"}

(* C7: a call takes the read path (db.all) exactly when its text, leading  *)
(* white space and case aside, begins with SELECT, WITH or PRAGMA, and the *)
(* mutation path (db.run) otherwise: the empty text and a text that begins *)
(* with a comment take the mutation path.  A call that succeeded has the   *)
(* result of its own path only.                                            *)
C7_RoutedByLeadingKeyword ==
  \A c \in 1..Len(calls) :
    /\ calls[c].path = "all" <=> \E keyword \in ReadKeywords : BeginsWith(calls[c].query, keyword)
    /\ calls[c].path = "run" <=> ~\E keyword \in ReadKeywords : BeginsWith(calls[c].query, keyword)
    /\ calls[c].status = "resolved" =>
         IF calls[c].path = "all" THEN calls[c].result = calls[c].reply.rows
         ELSE Len(calls[c].result) = 1 /\ DOMAIN calls[c].result[1] = {"changes", "lastID", "message"}

C7_Witness ==
  /\ Len(calls) = 2
  /\ calls[1].query = "-- rows\nSELECT * FROM t"
  /\ calls[1].path = "run"
  /\ calls[1].status # "pending"
  /\ calls[2].query = "\n\tSelect 1"
  /\ calls[2].path = "all"
  /\ calls[2].status = "resolved"

(* C8: resolve or reject is called at most once for a call, and exactly    *)
(* once when the store has answered.  When the store reported an error the *)
(* call is rejected with that error and has no result; otherwise a call on *)
(* the read path resolves to the rows of the store, none included, and a   *)
(* call on the mutation path to one record with the changes and lastID of  *)
(* the store.                                                              *)
C8_SettlesOnce ==
  \A c \in 1..Len(calls) :
    /\ calls[c].settles = (IF calls[c].status = "pending" THEN 0 ELSE 1)
    /\ calls[c].status = "pending" => calls[c].result = <<>> /\ calls[c].error = NoError
    /\ calls[c].status # "pending" =>
         IF calls[c].reply.err # NoError
         THEN /\ calls[c].status = "rejected"
              /\ calls[c].error = calls[c].reply.err
              /\ calls[c].result = <<>>
         ELSE /\ calls[c].status = "resolved"
              /\ calls[c].error = NoError
              /\ IF calls[c].path = "all"
                 THEN calls[c].result = calls[c].reply.rows
                 ELSE /\ Len(calls[c].result) = 1
                      /\ calls[c].result[1].changes = calls[c].reply.changes
                      /\ calls[c].result[1].lastID = calls[c].reply.lastID

C8_Witness ==
  /\ Len(calls) = 2
  /\ calls[1].query = "SELECT * FROM missing"
  /\ calls[1].status = "rejected"
  /\ calls[1].error = NoSuchTable
  /\ calls[2].query = "INSERT INTO t(id, name) VALUES (2, 'b')"
  /\ calls[2].status = "resolved"
  /\ calls[2].result[1].changes = 1
  /\ calls[2].result[1].lastID = 2

----------------------------------------------------------------------------
(* Properties of convertMySQLToSQLite (SpecConv).                          *)

Occurrences(s, part) == Cardinality({i \in 1..Len(s) : startsWithAt(s, part, i)})

TableConstraintPattern ==
  Lit("PRIMARY", TRUE) \o <<SomeSpace>> \o Lit("KEY", TRUE) \o <<AnySpace>> \o Lit("(", FALSE)

(* C9: converting the result of a conversion changes nothing. *)
C9_Idempotent == convPc = "twice" => convTwice = convOnce

(* C10: a CREATE TABLE whose quoted integer column is NOT NULL             *)
(* AUTO_INCREMENT and which has a PRIMARY KEY (...) constraint is          *)
(* converted to a statement with exactly one                               *)
(* `col` INTEGER PRIMARY KEY AUTOINCREMENT, no PRIMARY KEY (...)           *)
(* constraint, and so one declaration of a primary key.                    *)
C10_AutoIncrementCollapsed ==
  (convPc # "ready" /\ convIn \in AutoIncTables) =>
    /\ Occurrences(convOnce, BQ \o "id" \o BQ \o " INTEGER PRIMARY KEY AUTOINCREMENT") = 1
    /\ ~test(TableConstraintPattern, convOnce)
    /\ Occurrences(toUpperCase(convOnce), "PRIMARY KEY") = 1

(* C11: a column declared with one of the listed MySQL type spellings, in  *)
(* any letter case, comes out with exactly INTEGER (INT(n), TINYINT(n)) or *)
(* exactly TEXT (VARCHAR(n), CHAR(n), TEXT, DATETIME, TIMESTAMP) in place  *)
(* of the whole spelling, nothing of the original type name being left.    *)
C11_TypesMapped ==
  \A r \in TypeSpellings :
    (convPc # "ready" /\ convIn = TypedColumnTable(r[1])) => convOnce = TypedColumnTable(r[2])

----------------------------------------------------------------------------
(* Properties of a run of extractDatabaseSchema (SpecSchema).              *)

OfKind(d, kind) == SelectSeq(d, LAMBDA st : st.kind = kind)

TablesExtracted == schPc \in {"tables", "relationships", "returned"}

(* C12: when the dump has a CREATE TABLE, extractTables gives one table    *)
(* per CREATE TABLE statement of the dump, in the order of the dump, each  *)
(* with the name of its statement and the columns of the body of its own   *)
(* statement, also when table options follow the closing parenthesis.      *)
C12_OneTablePerCreateTable ==
  (TablesExtracted /\ OfKind(schDump, "table") # <<>>) =>
    /\ Len(schTables) = Len(OfKind(schDump, "table"))
    /\ \A k \in 1..Len(schTables) :
         /\ schTables[k].name = OfKind(schDump, "table")[k].name
         /\ schTables[k].columns = extractColumns(TableBody(OfKind(schDump, "table")[k].segments))

(* The column declarations of a table body, and the name and type of each  *)
(* column of a sequence.                                                   *)
DeclaredColumns(segments) == SelectSeq(segments, LAMBDA g : g.name # "")

NamesAndTypes(columns) == [k \in 1..Len(columns) |-> <<columns[k].name, columns[k].type>>]

HasSizeComma(segments) == \E k \in 1..Len(segments) : includes(segments[k].type, ",")

OneTableDump == Len(schDump) = 1 /\ schDump[1].kind = "table" /\ schDump[1].options = ""

(* C13: when a column type of the body has a size with a comma, such as    *)
(* DECIMAL(10,2), extractColumns gives one column per column declaration,  *)
(* each with its name and its complete type text: the comma splits,        *)
(* truncates or drops no column and the columns after it are unaffected.   *)
C13_SizeCommaKept ==
  (TablesExtracted /\ OneTableDump /\ HasSizeComma(schDump[1].segments)) =>
    /\ Len(schTables) = 1
    /\ NamesAndTypes(schTables[1].columns) = NamesAndTypes(DeclaredColumns(schDump[1].segments))

(* The column declarations of the CREATE TABLE statements of a dump. *)
DeclaredIn(d) ==
  UNION { {d[k].segments[j] : j \in {i \in 1..Len(d[k].segments) : d[k].segments[i].name # ""}} :
            k \in {i \in 1..Len(d) : d[i].kind = "table"} }

ContainsNoCase(s, p) ==
  \E i \in 1..(Len(s) - Len(p) + 1) : toUpperCase(SubSeq(s, i, i + Len(p) - 1)) = toUpperCase(p)

(* The REFERENCES clauses of the dumps, with the table and column of each. *)
ReferenceClauses ==
  { <<"REFERENCES users(id)", <<"users", "id">> >>,
    <<"references " \o BQ \o "users" \o BQ \o " ( " \o BQ \o "id" \o BQ \o " )", <<"users", "id">> >>,
    <<"REFERENCES items (id)", <<"items", "id">> >> }

ColumnFlagsFollowText(c) ==
  /\ c.nullable = ~ContainsNoCase(c.trailing, "NOT NULL")
  /\ c.primaryKey = ContainsNoCase(c.trailing, "PRIMARY KEY")
  /\ (c.foreignKey # <<>>) = ContainsNoCase(c.trailing, "REFERENCES")
  /\ \A r \in ReferenceClauses : includes(c.trailing, r[1]) => c.foreignKey = r[2]

C15_ColumnsAreDeclarations ==
  (TablesExtracted /\ OneTableDump /\ ~HasSizeComma(schDump[1].segments)) =>
    /\ Len(schTables) = 1
    /\ NamesAndTypes(schTables[1].columns) = NamesAndTypes(DeclaredColumns(schDump[1].segments))

(* The names of the indexes the dump creates on the table. *)
IndexesOn(d, table) ==
  {d[k].name : k \in {i \in 1..Len(d) : d[i].kind = "index" /\ d[i].row = <<table>>}}

(* C16: for every table extracted, the names in its indexes are exactly    *)
(* the names of the CREATE [UNIQUE] INDEX statements of the dump on that   *)
(* very table: an index on another table, one whose name begins with the   *)
(* name of this table included, is not listed.                             *)
C16_IndexesOfOwnTable ==
  TablesExtracted =>
    \A t \in 1..Len(schTables) :
      {schTables[t].indexes[i] : i \in 1..Len(schTables[t].indexes)}
        = IndexesOn(schDump, schTables[t].name)

RelationshipsExtracted == schPc \in {"relationships", "returned"}

(* The positions <<table, column>> of the columns that carry a foreignKey, *)
(* and the place of one of them in table order then column order.          *)
ForeignKeyColumns(tables) ==
  UNION { {<<t, k>> : k \in {i \in 1..Len(tables[t].columns) : tables[t].columns[i].foreignKey # <<>>}} :
            t \in 1..Len(tables) }

Before(p, q) == p[1] < q[1] \/ (p[1] = q[1] /\ p[2] < q[2])

PlaceOf(p, positions) == Cardinality({q \in positions : Before(q, p)}) + 1

InsertOnlyDump(d) == d # <<>> /\ \A k \in 1..Len(d) : d[k].kind = "insert"

(* The positions of the first INSERT of each table of the dump. *)
FirstInserts(d) ==
  {k \in 1..Len(d) : d[k].kind = "insert" /\ \A j \in 1..(k - 1) : d[j].name # d[k].name}

NthTable(p, positions) == Cardinality({q \in positions : q < p}) + 1

NamesOf(columns) == [k \in 1..Len(columns) |-> columns[k].name]

(* C18: for a dump with no CREATE TABLE and some INSERT INTO t (c1, ...,   *)
(* ck) VALUES, the inference gives one table for each table name of the    *)
(* dump, with the k columns c1..ck of the first INSERT of that table, in   *)
(* order, whether the column names are quoted or not.                      *)
C18_ColumnsOfFirstInsert ==
  (TablesExtracted /\ InsertOnlyDump(schDump)) =>
    /\ Len(schTables) = Cardinality(FirstInserts(schDump))
    /\ \A p \in FirstInserts(schDump) :
         /\ schTables[NthTable(p, FirstInserts(schDump))].name = schDump[p].name
         /\ NamesOf(schTables[NthTable(p, FirstInserts(schDump))].columns) = schDump[p].columns

(* A literal made of digits with at most one decimal point. *)
IsNumericLiteral(v) ==
  /\ \E i \in 1..Len(v) : Ch(v, i) \in DigitSet
  /\ \A i \in 1..Len(v) : Ch(v, i) \in DigitSet \cup {"."}
  /\ Cardinality({i \in 1..Len(v) : Ch(v, i) = "."}) <= 1

(* The type and the primary key flag the rules give, in their precedence,  *)
(* to the column named name at position index with the sampled literal v.  *)
ExpectedInference(name, index, v) ==
  IF ContainsNoCase(name, "id") THEN <<"INTEGER", index = 1>>
  ELSE IF IsNumericLiteral(v) THEN <<(IF includes(v, ".") THEN "REAL" ELSE "INTEGER"), FALSE>>
  ELSE <<"TEXT", FALSE>>

(* C19: for a dump of one INSERT INTO t (c1, ..., ck) VALUES (v1, ..., vk) *)
(* the inferred table has, for each i, a column named ci whose type and    *)
(* primary key flag follow the precedence: a name containing "id" gives    *)
(* INTEGER, and primary key in first position; otherwise a numeric vi      *)
(* gives INTEGER without a decimal point and REAL with one; otherwise      *)
(* TEXT.  INSERT INTO orders (order_id, total, active) VALUES (1, 19.99,   *)
(* 1) gives order_id INTEGER primary key, total REAL, active INTEGER.      *)
C19_InferencePrecedence ==
  (TablesExtracted /\ InsertOnlyDump(schDump) /\ Len(schDump) = 1) =>
    /\ Len(schTables) = 1
    /\ Len(schTables[1].columns) = Len(schDump[1].columns)
    /\ \A i \in 1..Len(schDump[1].columns) :
         /\ schTables[1].columns[i].name = schDump[1].columns[i]
         /\ <<schTables[1].columns[i].type, schTables[1].columns[i].primaryKey>>
              = ExpectedInference(schDump[1].columns[i], i, schDump[1].row[i])

(* C20: in a dump of several INSERTs, the columns of each table are those  *)
(* of the first INSERT INTO that table and their types are inferred from   *)
(* the first VALUES row of that same INSERT, never from a row of another   *)
(* table such as one whose name begins with the name of this table; later  *)
(* INSERTs into the table change nothing and give no second table.         *)
C20_FirstOccurrenceWins ==
  (TablesExtracted /\ InsertOnlyDump(schDump) /\ Len(schDump) > 1) =>
    /\ Len(schTables) = Cardinality(FirstInserts(schDump))
    /\ \A p \in FirstInserts(schDump) :
         /\ schTables[NthTable(p, FirstInserts(schDump))].name = schDump[p].name
         /\ NamesAndTypes(schTables[NthTable(p, FirstInserts(schDump))].columns)
              = [i \in 1..Len(schDump[p].columns) |->
                   <<schDump[p].columns[i],
                     ExpectedInference(schDump[p].columns[i], i, schDump[p].row[i])[1]>>]

PrimaryKeysOf(table) == {k \in 1..Len(table.columns) : table.columns[k].primaryKey}

(* C21: in every table the insert-driven inference gives, every column is  *)
(* nullable, at most one column is a primary key, and a column is a        *)
(* primary key only if it is the first one and its name contains "id"; a   *)
(* table whose first column has no "id" in its name has no primary key.    *)
C21_InferredNullableOnePrimaryKey ==
  (TablesExtracted /\ InsertOnlyDump(schDump)) =>
    \A t \in 1..Len(schTables) :
      /\ \A k \in 1..Len(schTables[t].columns) : schTables[t].columns[k].nullable
      /\ Cardinality(PrimaryKeysOf(schTables[t])) <= 1
      /\ \A k \in PrimaryKeysOf(schTables[t]) :
           k = 1 /\ ContainsNoCase(schTables[t].columns[k].name, "id")
      /\ ~ContainsNoCase(schTables[t].columns[1].name, "id") => PrimaryKeysOf(schTables[t]) = {}

C21_Witness ==
  /\ TablesExtracted /\ InsertOnlyDump(schDump)
  /\ Len(schTables) = 1
  /\ NamesOf(schTables[1].columns) = <<"label", "tag_id", "rank">>
  /\ PrimaryKeysOf(schTables[1]) = {}

----------------------------------------------------------------------------
(* Properties of upload requests and chats (SpecSession).                  *)

(* the fields of a column of the schema *)
FieldsOf(c) == <<c.name, c.type, c.nullable, c.primaryKey, c.foreignKey>>

ColumnFields(table) == [k \in 1..Len(table.columns) |-> FieldsOf(table.columns[k])]

SameTable(a, b) ==
  a.name = b.name /\ ColumnFields(a) = ColumnFields(b) /\ a.indexes = b.indexes

SameSchema(a, b) ==
  /\ Len(a.tables) = Len(b.tables)
  /\ \A t \in 1..Len(a.tables) : SameTable(a.tables[t], b.tables[t])
  /\ a.relationships = b.relationships
  /\ a.metadata = b.metadata

(* extractDatabaseSchema has written schema.json for the request and returned *)
SchemaPersisted == postSchema # Null

(* C22: once extractDatabaseSchema has persisted the schema of an upload   *)
(* of a session, loadDatabaseSchema of that session gives a schema equal,  *)
(* field for field, to the one extractDatabaseSchema returned: it reads    *)
(* the file that was written.                                              *)
C22_SchemaRoundTrip ==
  SchemaPersisted => SameSchema(loadDatabaseSchema(postToken), postSchema)

(* a step in which chat() of a new agent runs up to its first await result *)
ChatBegins ==
  /\ chatPc \in {"idle", "returned", "thrown"}
  /\ chatPc' \in {"thrown", "initialized"}
  /\ UNCHANGED <<postPc, uploads>>

HasArtifact(sessionToken) == SchemaPathOfSession(sessionToken) \in DOMAIN schemaFiles

(* C23: when the session of the agent has no schema file, loadDatabaseSchema *)
(* gives null and chat() ends with the error of initialize(): the agent    *)
(* holds no schema, the model is not called, the store is not touched, and *)
(* nothing of this changes until another chat begins.                      *)
C23_MissingSchemaSurfaced ==
  [][/\ (ChatBegins /\ ~HasArtifact(chatToken')) =>
          /\ chatPc' = "thrown" /\ chatSchema' = Null /\ modelCalls' = 0
          /\ UNCHANGED <<handles, calls, db>>
     /\ (chatPc = "thrown" /\ chatPc' # "thrown") => ChatBegins
     /\ (chatPc = "thrown" /\ chatPc' = "thrown" /\ chatToken' = chatToken) =>
          modelCalls' = 0 /\ chatSchema' = Null]_vars

C23_Witness ==
  /\ chatPc = "thrown" /\ chatSchema = Null /\ modelCalls = 0
  /\ ~HasArtifact(chatToken)
  /\ chatToken = "xa.sql" /\ postToken = "xa.sql" /\ response = 200

(* the schema file the request wrote *)
WrittenArtifact == parse(schemaFiles[SchemaPathOfFile(FilePath, postName)])

TableNames(tables) == [k \in 1..Len(tables) |-> tables[k].name]

----------------------------------------------------------------------------
(* Properties of the statement splitter (SpecSplit).                       *)

LinesOf(text) == split(text, "\n")

IsCommentLine(line) == startsWith(trim(line), "--")

(* the lines of SQL of a text, in order, as one text *)
SqlLines(text) ==
  trim(join(SelectSeq(LinesOf(text), LAMBDA line : ~IsCommentLine(line)), "\n"))

(* comment lines only, none of them with the word CREATE or INSERT *)
PureCommentBlock(text) ==
  /\ SqlLines(text) = ""
  /\ ~includes(text, "CREATE") /\ ~includes(text, "INSERT")

(* the stretches of the text that are not empty after trimming and are no *)
(* pure comment block                                                      *)
Candidates(pieces) ==
  SelectSeq([k \in 1..Len(pieces) |-> trim(pieces[k])],
            LAMBDA c : c # "" /\ ~PureCommentBlock(c))

(* C25: the splitter forwards no statement that is empty after trimming;   *)
(* it drops a stretch that is not empty only when that is a pure comment   *)
(* block without CREATE and INSERT; every other stretch, such as a comment *)
(* line followed by an UPDATE or DROP, is forwarded with its lines of SQL  *)
(* intact and in order.                                                    *)
C25_OnlyPureCommentsDropped ==
  splitPc = "split" =>
    /\ \A k \in 1..Len(splitOut) : trim(splitOut[k]) # ""
    /\ Len(splitOut) = Len(Candidates(splitIn))
    /\ \A k \in 1..Len(splitOut) : SqlLines(splitOut[k]) = SqlLines(Candidates(splitIn)[k])

StoreTables(d) == {r[1] : r \in d}

SchemaTableNames(schema) == {toLowerCase(schema.tables[k].name) : k \in 1..Len(schema.tables)}

(* C26: when an upload has succeeded, the database file of its session     *)
(* holds the tables and rows that the dump of this upload gives on an      *)
(* empty store and nothing of earlier uploads, and its tables are the      *)
(* tables of the schema the upload persisted.                              *)
C26_StoreOfMostRecentDump ==
  response = 200 =>
    /\ databases[DbPath(postToken)] = DriverRun({}, FileText(postDump)).db
    /\ StoreTables(databases[DbPath(postToken)]) = SchemaTableNames(postSchema)

----------------------------------------------------------------------------
(* The schema extractor against the driver, on the same file (SpecSchema). *)

(* the definition of a column of the schema, as generateCreateTableSQL     *)
(* writes one (src/lib/sql-executor.ts:214)                                *)
DefinitionOfColumn(c) ==
  BQ \o c.name \o BQ \o " " \o c.type \o (IF c.primaryKey THEN " PRIMARY KEY" ELSE "")

(* the statement that creates a table of the schema *)
StatementOfTable(t) ==
  "CREATE TABLE IF NOT EXISTS " \o BQ \o t.name \o BQ \o " (\n  "
    \o join([k \in 1..Len(t.columns) |-> DefinitionOfColumn(t.columns[k])], ",\n  ")
    \o "\n);"

----------------------------------------------------------------------------
(* The handles of the execute_sql_query tool (SpecQuery).                  *)

(* close() was called on the handle, and the handle is closed unless the   *)
(* store refused to close it                                               *)
Released(h) ==
  /\ handles[h].closeCalls = 1
  /\ handles[h].state = "closed" \/ handles[h].closeStatus = "rejected"

(* C28: when a call of the tool has returned, whether with the rows of the *)
(* query or with the text of an error, the handle it opened has been       *)
(* closed: between two calls of the tool no handle is left open.           *)
C28_ToolReleasesHandle ==
  toolPc = "idle" => \A h \in 1..Len(handles) : Released(h)

----------------------------------------------------------------------------
(* The quoted string literals of a statement under the normalizer          *)
(* (SpecConv).                                                             *)

QuotePositions(s) == {i \in 1..Len(s) : Ch(s, i) = "'"}

(* The contents of the single-quoted literals of s, in order. *)
QuotedLiterals(s) ==
  [k \in 1..(Cardinality(QuotePositions(s)) \div 2) |->
     SubSeq(s, Nth(QuotePositions(s), 2 * k - 1) + 1, Nth(QuotePositions(s), 2 * k) - 1)]

IsInsertStatement(s) == startsWith(toUpperCase(trim(s)), "INSERT")

(* C29: for an INSERT statement the normalizer leaves the contents of the  *)
(* quoted string literals as they are written in the dump: the literals of *)
(* the converted statement are those of the statement, letter for letter.  *)
C29_LiteralsPreserved ==
  (convPc # "ready" /\ IsInsertStatement(convIn)) => QuotedLiterals(convOnce) = QuotedLiterals(convIn)

----------------------------------------------------------------------------
(* The order of the steps of an upload (SpecSession).                      *)

(* The schema file the extractor wrote for the request holds its schema. *)
ArtifactPersisted ==
  /\ postSchema # Null
  /\ SchemaPathOfFile(FilePath, postName) \in DOMAIN schemaFiles
  /\ schemaFiles[SchemaPathOfFile(FilePath, postName)] = stringify(postSchema)

StoreReleased ==
  /\ Len(handles) > 0
  /\ handles[Len(handles)].state = "closed"
  /\ handles[Len(handles)].closeStatus = "resolved"

RequestAnswered == postPc # "responded" /\ postPc' = "responded"

(* C30: the store is opened only when the schema file of the request is    *)
(* written; the success response is given only from the end of the driver  *)
(* run, with the schema file written and the store closed; a request that  *)
(* ends in the extraction or in the driver run is answered with an error;  *)
(* and a request rejected by validation leaves the directories, the files, *)
(* the schema files, the databases and the handles as they were.           *)
C30_SuccessAfterPersistAndRelease ==
  [][/\ Len(handles') > Len(handles) => ArtifactPersisted
     /\ (RequestAnswered /\ response' = 200) =>
          postPc = "initialized" /\ ArtifactPersisted /\ StoreReleased
     /\ (RequestAnswered /\ postPc \in {"written", "extracted"}) => response' = 500
     /\ (uploads' # uploads /\ response' = 400) =>
          UNCHANGED <<dirs, sqlFiles, schemaFiles, databases, handles>>
     /\ (uploads' # uploads /\
           (postToken' = "" \/ postName' = "" \/ ~endsWith(toLowerCase(postName'), ".sql"))) =>
          response' = 400]_vars

C30_Witness ==
  /\ postPc = "responded" /\ response = 200 /\ uploads = 2
  /\ ArtifactPersisted /\ StoreReleased
  /\ Len(handles) = 2 /\ handles[1].closeStatus = "rejected"

=============================================================================
